---- MODULE Spec2Model ----
(***************************************************************************)
(* A model of the session adapters of ai-sessions-mcp: the opencode        *)
(* adapter with its SQLite store and its legacy flat-file store, the       *)
(* Mistral and Copilot adapters' forward pagination, and the get_session   *)
(* tool of the MCP server.                                                 *)
(*                                                                         *)
(* A message record of a store is [id, ok, json, time, created, role,       *)
(* blank, white]: id is the rank of its identifier (the message id of a    *)
(* SQLite row, the msg_*.json file name of a legacy file, the position in  *)
(* the file for Mistral and Copilot), ok says whether the record yields a  *)
(* Message (JSON that decodes into a message, and for Mistral and Copilot  *)
(* a record that is a message at all), json whether its data is            *)
(* well-formed JSON (a row with json and without ok holds JSON that is no  *)
(* message object: [], {"role": 5}), time is the time_created column of a  *)
(* SQLite row, created the time.created of the message JSON (0: absent),   *)
(* role its role ("" when the JSON has none), blank whether its text is    *)
(* empty after strings.TrimSpace, and white the text of a blank record as  *)
(* it is stored: "", " " or a tab.                                         *)
(***************************************************************************)
EXTENDS Integers, Sequences, FiniteSets, TLC

\* ------------------------------------------------------------------ bounds
MaxMsgs == 5        \* longest message history of one session
MaxPage == 3        \* largest page index requested
MaxSize == 3        \* largest page size requested
MaxParts == 2       \* most parts of one message, in the part table and inline
DualMsgs == 2       \* messages per session when several sessions are stored
OrderMsgs == 3      \* messages of a session stored out of order
MaxPrint == 2       \* distinct fingerprints a file takes

\* ------------------------------------------------------- program constants
DefaultPageSize == 20
DefaultListLimit == 10      \* list_sessions and search_sessions without a limit
IndexPageSize == 100000     \* the page the sweep fetches to get all messages

\* -------------------------------------------------------------- vocabulary
SessionIDs == {"ses_one", "ses_two"}
Cwd == "/w"
ProjectPaths == {"/w/one", "/w/two"}
ProjectIDs == {"proj_one", "proj_two"}
\* The project files and the entries of storage/session, in the order of
\* filepath.Glob and os.ReadDir (by name).
ProjectOrder == <<"proj_one", "proj_two">>
PathArgs == {"", "/w/one", "/w/two", "one", "/w/none"}
Queries == {"", "alpha", "BETA", "gamma", "zeta"}
Limits == 0..2
ToolPaths == {"", "/w/one"}
ToolQueries == {"", "alpha", "BETA"}
ToolLimits == {0, 1}
FlatAdapters == {"mistral", "copilot"}
\* The adapters main registers besides these three; they are defined outside the
\* sources modelled here and are known by the operations every adapter has.
OtherAdapters == {"claude", "gemini", "codex"}
\* The keys of adaptersMap: main registers the six adapters, each when its
\* constructor returns no error (main.go:46-64).
Sources == OtherAdapters \cup {"opencode"} \cup FlatAdapters
\* The source arguments tried: "bogus" is the key of no adapter.
SourceArgs == {"opencode", "claude", "bogus"} \cup FlatAdapters
Stores == {"sqlite", "files"} \cup FlatAdapters
DbPath == "opencode.db"
GlobOrder == <<"ses_one", "ses_two">>      \* file names in the order of filepath.Glob
ZeroTime == 0 - 1       \* Go's time.Time{}: before the Unix epoch, which is 0

\* Record number i of a well-kept store: written at time i, by the user and the
\* assistant in turn.
Row(i, ok) ==
    [id |-> i, ok |-> ok, json |-> ok, time |-> i, created |-> i,
     role |-> IF i % 2 = 1 THEN "user" ELSE "assistant", blank |-> FALSE, white |-> ""]

NoDir == <<Row(0, FALSE)>>      \* a message directory / file that does not exist

VARIABLES
    dbStatus,       \* opencode.db: "absent", "unopenable", "noschema" or "ok"
    dbSessions,     \* ids of the rows of table session
    dbMessages,     \* session id -> rows of table message
    storageStatus,  \* legacy storage dir: "absent", "nosessiondir" or "ok"
    fileSessions,   \* names of the session files under storage/session
    fileMessages,   \* session id -> msg_*.json files of the message directory, or NoDir
    flatMessages,   \* adapter -> file name -> records of the session file, or NoDir
    sessionMeta,    \* store -> key -> what the session record holds
    projects,       \* opencode store -> project id -> what the store holds of the project
    index,          \* the search index cache: session id -> its entry, or NoEntry
    fingerprint,    \* file -> the current fingerprint (modification time and size) of it
    cacheFaults,    \* the calls of the cache that fail: check and write (the session
                    \* ids NeedsReindex and IndexSession fail for), search
    resp,           \* the response of the call being answered, Idle between calls
    lastOrigin,     \* which store served the last opencode call
    rowOrder,       \* the order in which SQLite meets the rows of table session
    partStore,      \* one stored opencode message: its backend, part rows, inline content
    built           \* the Message built from partStore, NoMessage before it is read

vars == <<dbStatus, dbSessions, dbMessages, storageStatus, fileSessions,
          fileMessages, flatMessages, sessionMeta, projects, index, fingerprint,
          cacheFaults, resp, lastOrigin, rowOrder, partStore, built>>

stores == <<dbStatus, dbSessions, dbMessages, storageStatus, fileSessions,
            fileMessages, flatMessages, sessionMeta, projects, rowOrder, partStore,
            built>>

\* ----------------------------------------------------------------- helpers
Min(a, b) == IF a < b THEN a ELSE b

\* Go's integer division truncates toward zero.
GoDiv(a, b) ==
    IF (a >= 0 /\ b > 0) \/ (a <= 0 /\ b < 0)
    THEN (IF a >= 0 THEN a ELSE -a) \div (IF b >= 0 THEN b ELSE -b)
    ELSE -((IF a >= 0 THEN a ELSE -a) \div (IF b >= 0 THEN b ELSE -b))

\* n records of which record number bad (0: none) is malformed.
MkRows(n, bad) == [i \in 1..n |-> Row(i, i # bad)]

RowFamily == { MkRows(n, b) : n \in 0..MaxMsgs, b \in 0..1 } \cup
             { MkRows(n, n) : n \in 1..MaxMsgs }

RECURSIVE SelectOk(_)
SelectOk(rows) ==
    IF rows = <<>> THEN <<>>
    ELSE IF Head(rows).ok THEN <<Head(rows)>> \o SelectOk(Tail(rows))
    ELSE SelectOk(Tail(rows))

\* Message.Timestamp: SQLite takes time.created of the JSON when it is positive and
\* the time_created column otherwise, the legacy reader takes time.created when it
\* is there, Copilot takes the event's timestamp, Mistral sets none.
\* The text of a message.
TextOf(sid, id) ==
    IF sid = "ses_one" THEN (IF id = 1 THEN "beta" ELSE "Gamma")
    ELSE (IF id = 1 THEN "Beta" ELSE "alpha")

MessageTimestamp(src, row) ==
    CASE src = "sqlite" -> IF row.created > 0 THEN row.created ELSE row.time
      [] src = "mistral" -> ZeroTime
      [] OTHER -> IF row.created > 0 THEN row.created ELSE ZeroTime

\* The text of a record as it is stored.
StoredText(sid, row) == IF row.blank THEN row.white ELSE TextOf(sid, row.id)

\* The Message a record yields, tagged with the store it was read from.  The
\* opencode readers keep the text parts that are not blank, so that the content of
\* a blank record is ""; the Mistral and Copilot readers copy the content.
ToMessage(src, sid, row) ==
    [src |-> src, sid |-> sid, id |-> row.id, role |-> row.role,
     content |-> IF src \in {"sqlite", "files"}
                 THEN (IF row.blank THEN "" ELSE TextOf(sid, row.id))
                 ELSE StoredText(sid, row),
     timestamp |-> MessageTimestamp(src, row)]

\* Rows in increasing (time, id) order (ORDER BY time_created ASC, id ASC), and
\* files in increasing name order (sort.Strings); message ids and file names are
\* unique in a session.
RowBefore(a, b) == a.time < b.time \/ (a.time = b.time /\ a.id <= b.id)
NameBefore(a, b) == a.id <= b.id

RECURSIVE OrderByTimeAndID(_)
OrderByTimeAndID(S) ==
    IF S = {} THEN <<>>
    ELSE LET first == CHOOSE r \in S : \A q \in S : RowBefore(r, q)
         IN  <<first>> \o OrderByTimeAndID(S \ {first})

RECURSIVE OrderByName(_)
OrderByName(S) ==
    IF S = {} THEN <<>>
    ELSE LET first == CHOOSE r \in S : \A q \in S : NameBefore(r, q)
         IN  <<first>> \o OrderByName(S \ {first})

Range(seq) == { seq[i] : i \in 1..Len(seq) }

ToMessages(src, sid, rows) == [i \in 1..Len(rows) |-> ToMessage(src, sid, rows[i])]

\* Go's s[lo:hi] on a slice of length Len(s) (capacity = length here).
SliceOk(s, lo, hi) == 0 <= lo /\ lo <= hi /\ hi <= Len(s)
Slice(s, lo, hi) == SubSeq(s, lo + 1, hi)

\* A page result of an adapter.
PageResult(err, messages, total, resolved, hasMore, tried) ==
    [err |-> err, messages |-> messages, total |-> total, resolved |-> resolved,
     hasMore |-> hasMore, tried |-> tried]

\* ------------------------------------------------------- pagination resolver
\* Faulty variant: the last page computed from T instead of T - 1.
resolvePageOffByOne(page, pageSize, totalMessages, fromEnd) ==
    IF ~fromEnd THEN page
    ELSE IF totalMessages = 0 THEN 0
    ELSE LET lastPage == GoDiv(totalMessages, pageSize)
             resolvedPage == lastPage - page
         IN  IF resolvedPage < 0 THEN -1 ELSE resolvedPage

resolvePage(page, pageSize, totalMessages, fromEnd) ==
    IF ~fromEnd THEN page
    ELSE IF totalMessages = 0 THEN 0
    ELSE LET lastPage == GoDiv(totalMessages - 1, pageSize)
             resolvedPage == lastPage - page
         IN  IF resolvedPage < 0 THEN -1 ELSE resolvedPage

\* ------------------------------------------------------ opencode: SQLite
\* os.Stat fails for a missing file.  sql.Open only registers the path and opens
\* nothing; a file SQLite cannot open fails at the first statement, the PRAGMA.
openDB ==
    CASE dbStatus = "absent" -> <<"stat opencode.db: no such file">>
      [] dbStatus = "unopenable" -> <<"failed to set sqlite busy_timeout">>
      [] OTHER -> <<>>

sqliteSessionExists(sessionID) ==
    IF dbStatus = "noschema"
    THEN [err |-> <<"failed to check sqlite session existence">>, exists |-> FALSE]
    ELSE [err |-> <<>>, exists |-> sessionID \in dbSessions]

countSessionMessagesFromSQLite(sessionID) == Len(dbMessages[sessionID])

\* Faulty variant: the query without its OFFSET.
queryMessagePageNoOffset(sessionID, pageSize, offset) ==
    SubSeq(OrderByTimeAndID(Range(dbMessages[sessionID])), 1,
           Min(pageSize, Len(dbMessages[sessionID])))

\* SELECT ... ORDER BY time_created ASC, id ASC LIMIT pageSize OFFSET offset
queryMessagePage(sessionID, pageSize, offset) ==
    SubSeq(OrderByTimeAndID(Range(dbMessages[sessionID])), offset + 1,
           Min(offset + pageSize, Len(dbMessages[sessionID])))

getSessionPageFromSQLite(sessionID, page, pageSize, fromEnd) ==
    LET fail(cause) == PageResult(cause, <<>>, 0, page, FALSE, <<"sqlite">>)
        exists == sqliteSessionExists(sessionID)
        totalMessages == countSessionMessagesFromSQLite(sessionID)
        resolvedPage == resolvePage(page, pageSize, totalMessages, fromEnd)
        offset == resolvedPage * pageSize
        rows == queryMessagePage(sessionID, pageSize, offset)
        messages == ToMessages("sqlite", sessionID, rows)
    IN  IF openDB # <<>> THEN fail(openDB)
        ELSE IF exists.err # <<>> THEN fail(exists.err)
        ELSE IF ~exists.exists THEN fail(<<"session not found">>)
        ELSE IF resolvedPage < 0
             THEN PageResult(<<>>, <<>>, totalMessages, resolvedPage, FALSE, <<"sqlite">>)
        ELSE IF offset >= totalMessages
             THEN PageResult(<<>>, <<>>, totalMessages, resolvedPage, FALSE, <<"sqlite">>)
        ELSE IF \E i \in 1..Len(rows) : ~rows[i].ok
             THEN fail(<<"failed to parse sqlite message JSON">>)
        ELSE PageResult(<<>>, messages, totalMessages, resolvedPage,
                        offset + Len(messages) < totalMessages, <<"sqlite">>)

\* ------------------------------------------------- opencode: legacy files
messageDirExists(sessionID) ==
    storageStatus # "absent" /\ fileMessages[sessionID] # NoDir

readAllMessages(sessionID) ==
    ToMessages("files", sessionID, SelectOk(OrderByName(Range(fileMessages[sessionID]))))

getSessionPageFromFiles(sessionID, page, pageSize, fromEnd) ==
    LET messages == readAllMessages(sessionID)
        totalMessages == Len(messages)
        resolvedPage == resolvePage(page, pageSize, totalMessages, fromEnd)
        start == resolvedPage * pageSize
        end == Min(start + pageSize, Len(messages))
    IN  IF ~messageDirExists(sessionID)
        THEN PageResult(<<"session not found">>, <<>>, 0, page, FALSE, <<"files">>)
        ELSE IF resolvedPage < 0
             THEN PageResult(<<>>, <<>>, totalMessages, resolvedPage, FALSE, <<"files">>)
        ELSE IF start >= Len(messages)
             THEN PageResult(<<>>, <<>>, totalMessages, resolvedPage, FALSE, <<"files">>)
        ELSE PageResult(<<>>, Slice(messages, start, end), totalMessages, resolvedPage,
                        end < totalMessages, <<"files">>)

\* ------------------------------------------------ opencode: both backends
GetSessionPage(sessionID, page0, pageSize0, fromEnd) ==
    LET page == IF page0 < 0 THEN 0 ELSE page0
        pageSize == IF pageSize0 <= 0 THEN DefaultPageSize ELSE pageSize0
        primary == getSessionPageFromSQLite(sessionID, page, pageSize, fromEnd)
        fallback == getSessionPageFromFiles(sessionID, page, pageSize, fromEnd)
    IN  IF primary.err = <<>> THEN primary
        ELSE IF fallback.err = <<>>
             THEN [fallback EXCEPT !.tried = <<"sqlite", "files">>]
        ELSE PageResult(primary.err \o fallback.err, <<>>, 0, page, FALSE,
                        <<"sqlite", "files">>)

GetSession(sessionID, page, pageSize) ==
    LET r == GetSessionPage(sessionID, page, pageSize, FALSE)
    IN  PageResult(r.err, r.messages, 0, page, FALSE, r.tried)

\* ------------------------------------------------ Mistral and Copilot
\* The messages of a session file: system messages (Mistral) and events that
\* are no message or do not parse (Copilot) are left out.
flatFileExists(adapter, key) == flatMessages[adapter][key] # NoDir

flatReadAllMessages(adapter, key) ==
    ToMessages(adapter, key, SelectOk(flatMessages[adapter][key]))

\* Mistral looks for the first session file that parses and names the session id;
\* "" when there is none.
RECURSIVE mistralFindFile(_, _)
mistralFindFile(files, sessionID) ==
    IF files = <<>> THEN ""
    ELSE IF /\ flatFileExists("mistral", Head(files))
            /\ sessionMeta["mistral"][Head(files)].ok
            /\ sessionMeta["mistral"][Head(files)].id = sessionID
         THEN Head(files)
    ELSE mistralFindFile(Tail(files), sessionID)

\* start := page * pageSize ... return messages[start:end]
forwardWindow(messages, page, pageSize) ==
    LET start == page * pageSize
        end == Min(start + pageSize, Len(messages))
    IN  IF start >= Len(messages)
        THEN PageResult(<<>>, <<>>, 0, page, FALSE, <<>>)
        ELSE IF ~SliceOk(messages, start, end)
             THEN PageResult(<<"panic: slice bounds out of range">>, <<>>, 0, page, FALSE, <<>>)
        ELSE PageResult(<<>>, Slice(messages, start, end), 0, page, FALSE, <<>>)

MistralGetSession(sessionID, page, pageSize) ==
    LET sessionFile == mistralFindFile(GlobOrder, sessionID)
    IN  IF sessionFile = ""
        THEN PageResult(<<"session not found">>, <<>>, 0, page, FALSE, <<>>)
        ELSE forwardWindow(flatReadAllMessages("mistral", sessionFile), page, pageSize)

\* Copilot opens the file named after the session id.
CopilotGetSession(sessionID, page, pageSize) ==
    IF ~flatFileExists("copilot", sessionID)
    THEN PageResult(<<"session not found">>, <<>>, 0, page, FALSE, <<>>)
    ELSE IF ~sessionMeta["copilot"][sessionID].ok
         THEN PageResult(<<"failed to open session file">>, <<>>, 0, page, FALSE, <<>>)
    ELSE forwardWindow(flatReadAllMessages("copilot", sessionID), page, pageSize)

\* ------------------------------------------------ opencode: message parts
\* A content part is a JSON object; of its keys the adapter reads "type" and
\* "text".  type "" stands for a type that is missing, not a string or blank;
\* text Absent for a part without the key "text", NotString for a "text" that is
\* there and is no string (a number, null).  Part("", Absent) is the part {}; a
\* part row holding null is summarised as it is: of unknown kind, kept as {}.
Absent == "<absent>"
NotString == "<not a string>"
Part(type, text) == [type |-> type, text |-> text]
Parts ==
    { Part("tool", Absent), Part("text", Absent), Part("text", " "), Part("text", "hi"),
      Part("", Absent), Part("", "hi"), Part("", NotString) }
Kinds == {"text", "tool", "unknown"}

RECURSIVE SeqsUpTo(_, _)
SeqsUpTo(S, n) ==
    IF n = 0 THEN { <<>> }
    ELSE LET shorter == SeqsUpTo(S, n - 1)
         IN  shorter \cup { Append(q, x) : q \in shorter, x \in S }

\* The inline content of a message (opencodeMessage.Content, an interface{}):
\* nothing, a string, a list of parts or one part.
Content(form, str, parts) == [form |-> form, str |-> str, parts |-> parts]
Contents ==
    {Content("nil", "", <<>>)}
        \cup { Content("string", str, <<>>) : str \in {"", " ", "hi"} }
        \cup { Content("list", "", ps) : ps \in SeqsUpTo(Parts, MaxParts) }
        \cup { Content("map", "", <<part>>) : part \in Parts }

\* strings.TrimSpace takes off all white space, SQL trim() the spaces only.
TrimSpace(str) == IF str \in {" ", "\t"} THEN "" ELSE str
SqlTrim(str) == IF str = " " THEN "" ELSE str

RECURSIVE Join(_, _)
Join(elems, sep) ==
    IF elems = <<>> THEN ""
    ELSE IF Len(elems) = 1 THEN elems[1]
    ELSE elems[1] \o sep \o Join(Tail(elems), sep)

\* A map[string]int: nil or made; a key is in the map when its count is positive.
PartTypeMap(isNil, count) == [nil |-> isNil, count |-> count]
EmptyTypes == PartTypeMap(FALSE, [k \in Kinds |-> 0])
LenTypes(m) == Cardinality({ k \in Kinds : m.count[k] > 0 })

opencodePartSummary(textParts, partTypes, nonTextParts) ==
    [textParts |-> textParts, partTypes |-> partTypes, nonTextParts |-> nonTextParts]

getPartType(part) ==
    IF TrimSpace(part.type) # "" THEN part.type
    ELSE IF part.text # Absent THEN "text"
    ELSE "unknown"

addPartToSummary(summary, part) ==
    LET partType == getPartType(part)
        counted == [summary EXCEPT !.partTypes.count[partType] = @ + 1]
    IN  IF partType = "text"
        THEN IF part.text \notin {Absent, NotString} /\ TrimSpace(part.text) # ""
             THEN [counted EXCEPT !.textParts = Append(@, part.text)]
             ELSE counted
        ELSE [counted EXCEPT !.nonTextParts = Append(@, part)]

RECURSIVE addParts(_, _)
addParts(summary, parts) ==
    IF parts = <<>> THEN summary
    ELSE addParts(addPartToSummary(summary, Head(parts)), Tail(parts))

summarizeMessageContent(content) ==
    LET summary == opencodePartSummary(<<>>, EmptyTypes, <<>>)
    IN  CASE content.form = "string" ->
                IF TrimSpace(content.str) # ""
                THEN [summary EXCEPT !.textParts = <<content.str>>,
                                     !.partTypes.count["text"] = 1]
                ELSE summary
          [] content.form \in {"list", "map"} -> addParts(summary, content.parts)
          [] OTHER -> summary

\* The summary of the part rows of one message id; a message without part rows
\* gets opencodePartSummary{PartTypes: map[string]int{}}.
getMessagePartsByMessageID(rows) ==
    addParts(opencodePartSummary(<<>>, EmptyTypes, <<>>), rows)

Message(content, hasNonTextParts, partTypes, nonTextParts) ==
    [stage |-> "adapter", content |-> content, hasNonTextParts |-> hasNonTextParts,
     partTypes |-> partTypes, nonTextParts |-> nonTextParts]

\* The Message getSessionPageFromSQLite builds from the part rows of a message row
\* and the content of its JSON.
sqliteMessage(rows, inline) ==
    LET fromRows == getMessagePartsByMessageID(rows)
        fallbackSummary == summarizeMessageContent(inline)
        joined == Join(fromRows.textParts, "\n")
        nonTextParts ==
            IF joined = "" /\ Len(fromRows.nonTextParts) = 0
                           /\ Len(fallbackSummary.nonTextParts) > 0
            THEN fallbackSummary.nonTextParts ELSE fromRows.nonTextParts
        partTypes ==
            IF joined = "" /\ LenTypes(fromRows.partTypes) = 0
                           /\ LenTypes(fallbackSummary.partTypes) > 0
            THEN fallbackSummary.partTypes ELSE fromRows.partTypes
        content == IF joined = "" THEN Join(fallbackSummary.textParts, "\n") ELSE joined
    IN  Message(content, Len(nonTextParts) > 0,
                IF partTypes.nil THEN EmptyTypes ELSE partTypes, nonTextParts)

\* The Message readAllMessages builds from a msg_*.json file.
fileMessage(inline) ==
    LET summary == summarizeMessageContent(inline)
    IN  Message(Join(summary.textParts, "\n"), Len(summary.nonTextParts) > 0,
                IF summary.partTypes.nil THEN EmptyTypes ELSE summary.partTypes,
                summary.nonTextParts)

\* The handler of get_session replaces a nil PartTypes by an empty map.
toolMessage(message) ==
    [message EXCEPT !.stage = "tool",
                    !.partTypes = IF @.nil THEN EmptyTypes ELSE @]

PartStore(backend, rows, inline) == [backend |-> backend, rows |-> rows, inline |-> inline]
NoParts == PartStore("none", <<>>, Content("nil", "", <<>>))
NoMessage == [Message("", FALSE, EmptyTypes, <<>>) EXCEPT !.stage = "none"]

\* ------------------------------------------------------ get_session tool
\* Faulty variant: every adapter is taken to have GetSessionPage.
paginationAssumed(source) == TRUE

\* adapter.(paginationCapableAdapter): of the adapters modelled the opencode
\* adapter has GetSessionPage; the other adapters are taken by the operations
\* every adapter has.
paginationCapableAdapter(source) == source = "opencode"

\* The stores of the adapters claude, gemini and codex hold none of the sessions
\* of SessionIDs: their GetSession fails for each of them.
adapterGetSession(source, sessionID, page, pageSize) ==
    CASE source = "opencode" -> GetSession(sessionID, page, pageSize)
      [] source = "mistral" -> MistralGetSession(sessionID, page, pageSize)
      [] source = "copilot" -> CopilotGetSession(sessionID, page, pageSize)
      [] OTHER -> PageResult(<<"session not found">>, <<>>, 0, page, FALSE, <<>>)

\* Faulty variant: the extra message fetched to compute has_more is not cut off.
trimFetchedKeepsAll(fetched, pageSize) ==
    [ok |-> TRUE, hasMore |-> Len(fetched) > pageSize, messages |-> fetched]

\* hasMore = len(fetched) > pageSize; messages = fetched[:pageSize] if hasMore
trimFetched(fetched, pageSize) ==
    LET hasMore == Len(fetched) > pageSize
    IN  IF hasMore /\ ~SliceOk(fetched, 0, pageSize)
        THEN [ok |-> FALSE, hasMore |-> hasMore, messages |-> <<>>]
        ELSE [ok |-> TRUE, hasMore |-> hasMore,
              messages |-> IF hasMore THEN Slice(fetched, 0, pageSize) ELSE fetched]

\* The handler's result: the page, page size and flags it reports with the messages.
ToolResult(r, page, pageSize, totalPages) ==
    [err |-> r.err, messages |-> r.messages, total |-> r.total, resolved |-> r.resolved,
     hasMore |-> r.hasMore, tried |-> r.tried, page |-> page, pageSize |-> pageSize,
     totalPages |-> totalPages]

getSessionTool(source, sessionID, page0, pageSize0, fromEnd) ==
    LET pageSize == IF pageSize0 = 0 THEN DefaultPageSize ELSE pageSize0
        page == IF page0 < 0 THEN 0 ELSE page0
        failed(cause, tried) ==
            ToolResult(PageResult(cause, <<>>, 0, page, FALSE, tried), page, pageSize, 0)
        paged == GetSessionPage(sessionID, page, pageSize, fromEnd)
        fetched == adapterGetSession(source, sessionID, page, pageSize + 1)
        trimmed == trimFetched(fetched.messages, pageSize)
        totalPages(t) == IF t > 0 THEN GoDiv(t + pageSize - 1, pageSize) ELSE 0
    IN  IF source \notin Sources THEN failed(<<"unknown source">>, <<>>)
        ELSE IF paginationCapableAdapter(source)
        THEN IF paged.err # <<>> THEN failed(paged.err, paged.tried)
             ELSE ToolResult(paged, page, pageSize, totalPages(paged.total))
        ELSE IF fromEnd THEN failed(<<"from_end is not supported">>, <<>>)
        ELSE IF fetched.err # <<>> THEN failed(fetched.err, <<>>)
        ELSE IF ~trimmed.ok THEN failed(<<"panic: slice bounds out of range">>, <<>>)
        ELSE ToolResult(PageResult(<<>>, trimmed.messages, 0, page, trimmed.hasMore, <<>>),
                        page, pageSize, 0)

\* ------------------------------------------------- the stored sessions
\* A session record of a store (a row of table session, a ses_*.json file of the
\* legacy store, a session_*.json file of Mistral, a *.jsonl file of Copilot) is
\* named by a key of SessionIDs: the row's id, the file's name.  sessionMeta says
\* what the record holds: ok (it can be read and parsed; for a Copilot file: it
\* can be opened, since the Copilot parser skips the lines that do not parse,
\* which are the records with ok = FALSE of flatMessages, and fails on os.Open
\* only), id (the session id it names; the row's id for SQLite), created (its native creation time in
\* milliseconds, 0: none), mtime (the file's modification time) and project (the
\* project_id of the row, the directory storage/session/<project> the legacy file
\* lies in, the project whose worktree a Mistral or Copilot file records as its
\* working directory).  The title and the message texts are those of the key.
Worktree(p) == IF p = "proj_one" THEN "/w/one" ELSE "/w/two"
HomeProject(key) == IF key = "ses_one" THEN "proj_one" ELSE "proj_two"
CreatedAt(sid) == IF sid = "ses_one" THEN 2000 ELSE 3000
TitleOf(sid) == IF sid = "ses_one" THEN "Alpha" ELSE "Beta"
\* filepath.Join(storageDir, "session", projectID, name): the path of a session file.
LegacyPath(projectID, key) ==
    CASE projectID = "proj_one" /\ key = "ses_one" -> "storage/session/proj_one/ses_one.json"
      [] projectID = "proj_one" -> "storage/session/proj_one/ses_two.json"
      [] key = "ses_one" -> "storage/session/proj_two/ses_one.json"
      [] OTHER -> "storage/session/proj_two/ses_two.json"
FlatPath(adapter, key) ==
    CASE adapter = "mistral" /\ key = "ses_one" -> ".vibe/logs/session/session_ses_one.json"
      [] adapter = "mistral" -> ".vibe/logs/session/session_ses_two.json"
      [] key = "ses_one" -> ".copilot/session-state/ses_one.jsonl"
      [] OTHER -> ".copilot/session-state/ses_two.jsonl"
ModTime(key) == IF key = "ses_one" THEN 4000 ELSE 5000

\* A record as the tools write it: it names its own key and has a creation time.
WellKept(key) ==
    [ok |-> TRUE, id |-> key, created |-> CreatedAt(key), mtime |-> ModTime(key),
     project |-> HomeProject(key)]

\* What an opencode store holds of a project: in SQLite the row of table project
\* (ok: the row is there; id and worktree: its columns); in the legacy store the
\* file storage/project/<name>.json (ok: it is there, can be read and parses; id
\* and worktree: what its JSON says) and the entry storage/session/<name> (isDir:
\* it is a directory).
opencodeProject(ok, id, worktree, isDir) ==
    [ok |-> ok, id |-> id, worktree |-> worktree, isDir |-> isDir]

\* The projects as opencode writes them: one per worktree, named by its id.
WellKeptProjects ==
    [st \in {"sqlite", "files"} |->
        [p \in ProjectIDs |-> opencodeProject(TRUE, p, Worktree(p), TRUE)]]

\* strings.ToLower
ToLower(s) ==
    CASE s = "Alpha" -> "alpha" [] s = "Beta" -> "beta" [] s = "BETA" -> "beta"
      [] s = "Gamma" -> "gamma" [] OTHER -> s

\* strings.Contains, and LIKE '%sub%', on the one-word texts of this corpus ("" is
\* in every text; no query holds the wildcards % and _).
Contains(text, sub) == sub = "" \/ text = sub

\* filepath.Abs
Abs(path) == IF path = "one" THEN "/w/one" ELSE path

Session(id, project, summary, firstMessage, timestamp, filePath, userCount) ==
    [id |-> id, project |-> project, summary |-> summary, firstMessage |-> firstMessage,
     timestamp |-> timestamp, filePath |-> filePath, userCount |-> userCount]

ListResult(err, sessions, tried) == [err |-> err, sessions |-> sessions, tried |-> tried]

\* The orders in which the elements of a set can come.
Orders(S) ==
    { o \in [1..Cardinality(S) -> S] : \A i, j \in 1..Cardinality(S) : i # j => o[i] # o[j] }

\* The sequence without its element number i.
Without(seq, i) == SubSeq(seq, 1, i - 1) \o SubSeq(seq, i + 1, Len(seq))

\* Faulty variant: the comparison of the sort turned around.
RECURSIVE OldestFirst(_)
OldestFirst(seq) ==
    IF seq = <<>> THEN <<>>
    ELSE LET top == CHOOSE i \in 1..Len(seq) :
                        /\ \A j \in 1..Len(seq) : seq[j].timestamp >= seq[i].timestamp
                        /\ \A j \in 1..(i - 1) : seq[j].timestamp > seq[i].timestamp
         IN  <<seq[top]>> \o OldestFirst(Without(seq, top))

\* Sessions newest first (ORDER BY time_created DESC / sort.Slice with
\* Timestamp.After).  Sessions with equal timestamps keep the order they come in:
\* SQLite yields them in the order it meets the rows, and sort.Slice sorts a slice
\* of at most 12 elements by insertion, which moves no element past an equal one
\* (the sessions of the model are fewer).
RECURSIVE NewestFirst(_)
NewestFirst(seq) ==
    IF seq = <<>> THEN <<>>
    ELSE LET top == CHOOSE i \in 1..Len(seq) :
                        /\ \A j \in 1..Len(seq) : seq[j].timestamp <= seq[i].timestamp
                        /\ \A j \in 1..(i - 1) : seq[j].timestamp < seq[i].timestamp
         IN  <<seq[top]>> \o NewestFirst(Without(seq, top))

\* The elements of a sequence of keys that are in a set, in the order of the sequence.
Among(keys, S) == SelectSeq(keys, LAMBDA k : k \in S)

\* f applied to every element of a sequence.
MapSeq(f(_), seq) == [i \in 1..Len(seq) |-> f(seq[i])]

ApplyLimit(seq, limit) ==
    IF limit > 0 /\ Len(seq) > limit THEN SubSeq(seq, 1, limit) ELSE seq

RECURSIVE SelectUser(_)
SelectUser(rows) ==
    IF rows = <<>> THEN <<>>
    ELSE IF Head(rows).role = "user" THEN <<Head(rows)>> \o SelectUser(Tail(rows))
    ELSE SelectUser(Tail(rows))

\* AND trim(COALESCE(json_extract(p.data, '$.text'), '')) <> '': a text of tabs
\* or line breaks is counted, a text of spaces is not.
CountNonBlank(rows) ==
    Cardinality({ i \in 1..Len(rows) : ~rows[i].blank \/ SqlTrim(rows[i].white) # "" })

\* ------------------------------------------- opencode: listing, SQLite
\* The two queries of getFirstUserMessageAndCountFromSQLite: the text of the first
\* text part of a user message, and the number of user messages with a text part
\* that is not blank.  Every message row of the model has one part row, a text
\* part written with it: dbMessages[sid] lists the rows in the order their parts
\* were written (p.time_created, then the order SQLite meets them).  The join
\* reads the data of every row that has a part, so json_extract fails on a row
\* that is not JSON, and the caller then takes "" and 0; of a row that is JSON
\* json_extract gives the role, or NULL, whether or not the JSON is a message.
\* ORDER BY m.time_created ASC, p.time_created ASC: rows of one time_created come
\* in the order of their parts.
RECURSIVE OrderByTime(_)
OrderByTime(rows) ==
    IF rows = <<>> THEN <<>>
    ELSE LET first == CHOOSE i \in 1..Len(rows) :
                          /\ \A j \in 1..Len(rows) : rows[i].time <= rows[j].time
                          /\ \A j \in 1..(i - 1) : rows[j].time > rows[i].time
         IN  <<rows[first]>> \o OrderByTime(Without(rows, first))

sqliteFirstMessage(sid) ==
    LET users == SelectUser(OrderByTime(dbMessages[sid]))
    IN  IF ~(\A i \in 1..Len(dbMessages[sid]) : dbMessages[sid][i].json) THEN ""
        ELSE IF users = <<>> \/ users[1].blank THEN ""
        ELSE TextOf(sid, users[1].id)

sqliteUserCount(sid) ==
    IF ~(\A i \in 1..Len(dbMessages[sid]) : dbMessages[sid][i].json) THEN 0
    ELSE CountNonBlank(SelectUser(dbMessages[sid]))

\* JOIN project p ON p.id = s.project_id: the project row a session row joins; a
\* session row that joins none is in no result.
sqliteProject(s) == projects["sqlite"][sessionMeta["sqlite"][s].project]

listSessionsFromSQLite(projectPath, limit) ==
    LET absPath == IF projectPath # "" THEN Abs(projectPath) ELSE ""
        selected == { s \in dbSessions :
                        /\ sqliteProject(s).ok
                        /\ absPath = "" \/ sqliteProject(s).worktree = absPath }
        row(s) == Session(s, sqliteProject(s).worktree, TitleOf(s), sqliteFirstMessage(s),
                          sessionMeta["sqlite"][s].created, DbPath, sqliteUserCount(s))
        sessions == MapSeq(row, Among(rowOrder, selected))
    IN  IF openDB # <<>> THEN ListResult(openDB, <<>>, <<"sqlite">>)
        ELSE IF dbStatus = "noschema"
             THEN ListResult(<<"failed to query sessions from sqlite">>, <<>>, <<"sqlite">>)
        ELSE ListResult(<<>>, ApplyLimit(NewestFirst(sessions), limit), <<"sqlite">>)

\* ------------------------------------------- opencode: listing, files
\* getFirstUserMessageAndCount: the user messages of the message directory, in file
\* name order, whose content is not blank.
filesUserMessages(sid) ==
    LET rows == IF messageDirExists(sid)
                THEN SelectUser(SelectOk(OrderByName(Range(fileMessages[sid])))) ELSE <<>>
    IN  SelectSeq(rows, LAMBDA r : ~r.blank)

filesFirstMessage(sid) ==
    IF filesUserMessages(sid) = <<>> THEN "" ELSE TextOf(sid, filesUserMessages(sid)[1].id)

filesUserCount(sid) == Len(filesUserMessages(sid))

\* loadProject: the project file <projectID>.json, read and parsed; it fails when
\* ok is FALSE.
loadProject(projectID) == projects["files"][projectID]

\* findProjectIDByPath: the id that the first project file names whose worktree is
\* the path; a file that cannot be read or parsed is passed over; "" when no file
\* names the path.
RECURSIVE findProjectLoop(_, _)
findProjectLoop(files, targetPath) ==
    IF files = <<>> THEN ""
    ELSE IF loadProject(Head(files)).ok /\ loadProject(Head(files)).worktree = targetPath
         THEN loadProject(Head(files)).id
    ELSE findProjectLoop(Tail(files), targetPath)

findProjectIDByPath(targetPath) == findProjectLoop(ProjectOrder, targetPath)

\* listProjectSessions: the session files of the project directory that parse,
\* with ProjectPath = the worktree given and Timestamp =
\* time.UnixMilli(sess.Time.Created), in the order of filepath.Glob (by name).
listProjectSessions(projectID, worktree) ==
    LET files == { f \in fileSessions : sessionMeta["files"][f].project = projectID }
        parsed(f) == Session(sessionMeta["files"][f].id, worktree, TitleOf(f),
                             filesFirstMessage(sessionMeta["files"][f].id),
                             sessionMeta["files"][f].created, LegacyPath(projectID, f),
                             filesUserCount(sessionMeta["files"][f].id))
    IN  MapSeq(parsed, Among(GlobOrder, { g \in files : sessionMeta["files"][g].ok }))

\* The loop over the entries of storage/session: an entry that is no directory, a
\* directory of another project than the target and a directory whose project
\* file does not load are passed over.
RECURSIVE listProjectDirs(_, _)
listProjectDirs(projectDirs, targetProjectID) ==
    IF projectDirs = <<>> THEN <<>>
    ELSE IF \/ ~loadProject(Head(projectDirs)).isDir
            \/ targetProjectID # "" /\ Head(projectDirs) # targetProjectID
            \/ ~loadProject(Head(projectDirs)).ok
         THEN listProjectDirs(Tail(projectDirs), targetProjectID)
    ELSE listProjectSessions(Head(projectDirs), loadProject(Head(projectDirs)).worktree)
         \o listProjectDirs(Tail(projectDirs), targetProjectID)

listSessionsFromFiles(projectPath, limit) ==
    LET targetProjectID == IF projectPath # "" THEN findProjectIDByPath(Abs(projectPath)) ELSE ""
        allSessions == listProjectDirs(ProjectOrder, targetProjectID)
    IN  IF storageStatus = "absent" THEN ListResult(<<>>, <<>>, <<"files">>)
        ELSE IF projectPath # "" /\ targetProjectID = ""
             THEN ListResult(<<>>, <<>>, <<"files">>)
        ELSE IF storageStatus = "nosessiondir"
             THEN ListResult(<<"failed to read session directory">>, <<>>, <<"files">>)
        ELSE ListResult(<<>>, ApplyLimit(NewestFirst(allSessions), limit), <<"files">>)

\* Faulty variant: an empty result of the SQLite listing is taken for a failure.
ListSessionsFallbackOnEmpty(projectPath, limit) ==
    LET primary == listSessionsFromSQLite(projectPath, limit)
        fallback == listSessionsFromFiles(projectPath, limit)
    IN  IF primary.err = <<>> /\ primary.sessions # <<>> THEN primary
        ELSE IF fallback.err = <<>>
             THEN [fallback EXCEPT !.tried = <<"sqlite", "files">>]
        ELSE ListResult(primary.err \o fallback.err, <<>>, <<"sqlite", "files">>)

\* Faulty variant: the legacy sessions are appended to the SQLite sessions.
ListSessionsMerged(projectPath, limit) ==
    LET primary == listSessionsFromSQLite(projectPath, limit)
        fallback == listSessionsFromFiles(projectPath, limit)
    IN  IF primary.err = <<>>
        THEN IF fallback.err = <<>>
             THEN ListResult(<<>>, primary.sessions \o fallback.sessions, <<"sqlite", "files">>)
             ELSE primary
        ELSE IF fallback.err = <<>>
             THEN [fallback EXCEPT !.tried = <<"sqlite", "files">>]
        ELSE ListResult(primary.err \o fallback.err, <<>>, <<"sqlite", "files">>)

\* Faulty variant: an adapter that remembers that its last call fell back to the files.
ListSessionsSticky(projectPath, limit) ==
    LET primary == listSessionsFromSQLite(projectPath, limit)
        fallback == listSessionsFromFiles(projectPath, limit)
    IN  IF lastOrigin = "files" /\ fallback.err = <<>> THEN fallback
        ELSE IF primary.err = <<>> THEN primary
        ELSE IF fallback.err = <<>>
             THEN [fallback EXCEPT !.tried = <<"sqlite", "files">>]
        ELSE ListResult(primary.err \o fallback.err, <<>>, <<"sqlite", "files">>)

\* ------------------------------------------- opencode: listing, both
ListSessions(projectPath, limit) ==
    LET primary == listSessionsFromSQLite(projectPath, limit)
        fallback == listSessionsFromFiles(projectPath, limit)
    IN  IF primary.err = <<>> THEN primary
        ELSE IF fallback.err = <<>>
             THEN [fallback EXCEPT !.tried = <<"sqlite", "files">>]
        ELSE ListResult(primary.err \o fallback.err, <<>>, <<"sqlite", "files">>)

\* ------------------------------------------- opencode: search
searchSessionsFromSQLite(projectPath, query, limit) ==
    LET absPath == IF projectPath # "" THEN Abs(projectPath) ELSE ""
        lowerQuery == ToLower(query)
        textHit(s) == \E i \in 1..Len(dbMessages[s]) :
                         Contains(ToLower(StoredText(s, dbMessages[s][i])), lowerQuery)
        selected == { s \in dbSessions :
                        /\ sqliteProject(s).ok
                        /\ Contains(ToLower(TitleOf(s)), lowerQuery) \/ textHit(s)
                        /\ absPath = "" \/ sqliteProject(s).worktree = absPath }
        row(s) == Session(s, sqliteProject(s).worktree, TitleOf(s), sqliteFirstMessage(s),
                          sessionMeta["sqlite"][s].created, DbPath, sqliteUserCount(s))
        matches == MapSeq(row, Among(rowOrder, selected))
    IN  IF openDB # <<>> THEN ListResult(openDB, <<>>, <<"sqlite">>)
        ELSE IF dbStatus = "noschema"
             THEN ListResult(<<"failed to search sqlite sessions">>, <<>>, <<"sqlite">>)
        ELSE ListResult(<<>>, ApplyLimit(NewestFirst(matches), limit), <<"sqlite">>)

\* The loop over the listed sessions: a title or first-message hit is appended
\* and the loop continues; a content hit is appended and the limit is tested.
RECURSIVE searchLoop(_, _, _, _)
searchLoop(sessions, query, limit, matches) ==
    IF sessions = <<>> THEN matches
    ELSE LET session == Head(sessions)
             messages == IF messageDirExists(session.id)
                         THEN readAllMessages(session.id) ELSE <<>>
             contentHit == \E i \in 1..Len(messages) :
                              Contains(ToLower(messages[i].content), query)
             after == IF contentHit THEN Append(matches, session) ELSE matches
         IN  IF Contains(ToLower(session.summary), query)
                \/ Contains(ToLower(session.firstMessage), query)
             THEN searchLoop(Tail(sessions), query, limit, Append(matches, session))
             ELSE IF limit > 0 /\ Len(after) >= limit THEN after
             ELSE searchLoop(Tail(sessions), query, limit, after)

searchSessionsFromFiles(projectPath, query, limit) ==
    LET listed == listSessionsFromFiles(projectPath, 0)
    IN  IF listed.err # <<>> THEN listed
        ELSE ListResult(<<>>, searchLoop(listed.sessions, ToLower(query), limit, <<>>),
                        <<"files">>)

\* Faulty variant: the combined error names the legacy cause only.
SearchSessionsDropsCause(projectPath, query, limit) ==
    LET primary == searchSessionsFromSQLite(projectPath, query, limit)
        fallback == searchSessionsFromFiles(projectPath, query, limit)
    IN  IF primary.err = <<>> THEN primary
        ELSE IF fallback.err = <<>>
             THEN [fallback EXCEPT !.tried = <<"sqlite", "files">>]
        ELSE ListResult(fallback.err, <<>>, <<"sqlite", "files">>)

SearchSessions(projectPath, query, limit) ==
    LET primary == searchSessionsFromSQLite(projectPath, query, limit)
        fallback == searchSessionsFromFiles(projectPath, query, limit)
    IN  IF primary.err = <<>> THEN primary
        ELSE IF fallback.err = <<>>
             THEN [fallback EXCEPT !.tried = <<"sqlite", "files">>]
        ELSE ListResult(primary.err \o fallback.err, <<>>, <<"sqlite", "files">>)

\* ------------------------------------- Mistral and Copilot: listing
\* parseSessionMetadata: the Timestamp is the start time the file records, and the
\* file's modification time when no start time could be parsed.
flatTimestamp(meta) ==
    LET parsed == IF meta.created = 0 THEN ZeroTime ELSE meta.created
    IN  IF parsed = ZeroTime THEN meta.mtime ELSE parsed

\* The user messages of a session file: every one is counted, and the first message
\* is the first line of the first one that has a line.
flatUserMessages(adapter, key) == SelectUser(SelectOk(flatMessages[adapter][key]))

flatFirstMessage(adapter, key) ==
    LET withLine == SelectSeq(flatUserMessages(adapter, key), LAMBDA r : ~r.blank)
    IN  IF withLine = <<>> THEN "" ELSE TextOf(key, withLine[1].id)

flatUserCount(adapter, key) == Len(flatUserMessages(adapter, key))

\* The working directory a session file records.
flatProjectPath(adapter, key) == Worktree(sessionMeta[adapter][key].project)

parseSessionMetadata(adapter, key) ==
    Session(sessionMeta[adapter][key].id, flatProjectPath(adapter, key), "",
            flatFirstMessage(adapter, key),
            flatTimestamp(sessionMeta[adapter][key]), FlatPath(adapter, key),
            flatUserCount(adapter, key))

flatListSessions(adapter, projectPath, limit) ==
    LET absPath == IF projectPath # "" THEN Abs(projectPath) ELSE ""
        files == { k \in SessionIDs : flatFileExists(adapter, k) }
        parsed == { k \in files : sessionMeta[adapter][k].ok }
        parse(k) == parseSessionMetadata(adapter, k)
        sessions == MapSeq(parse, Among(GlobOrder,
                               { f \in parsed :
                                   absPath = "" \/ flatProjectPath(adapter, f) = absPath }))
    IN  ListResult(<<>>, ApplyLimit(NewestFirst(sessions), limit), <<>>)

MistralListSessions(projectPath, limit) == flatListSessions("mistral", projectPath, limit)

CopilotListSessions(projectPath, limit) == flatListSessions("copilot", projectPath, limit)

\* The file of a flat adapter with the given path.
flatFileKey(adapter, filePath) ==
    CHOOSE k \in SessionIDs : FlatPath(adapter, k) = filePath

\* The content of a message of the file holds the query; every message is
\* tested, those with an empty content too.
flatContentHit(adapter, key, query) ==
    \E i \in 1..Len(flatReadAllMessages(adapter, key)) :
        Contains(ToLower(flatReadAllMessages(adapter, key)[i].content), query)

\* MistralAdapter.SearchSessions, the loop over the listed sessions: a first-message
\* hit is appended and the loop continues; a content hit is appended and the
\* limit is tested.
RECURSIVE mistralSearchLoop(_, _, _, _)
mistralSearchLoop(sessions, query, limit, matches) ==
    IF sessions = <<>> THEN matches
    ELSE LET session == Head(sessions)
             after == IF flatContentHit("mistral", flatFileKey("mistral", session.filePath),
                                        query)
                      THEN Append(matches, session) ELSE matches
         IN  IF Contains(ToLower(session.firstMessage), query)
             THEN mistralSearchLoop(Tail(sessions), query, limit, Append(matches, session))
             ELSE IF limit > 0 /\ Len(after) >= limit THEN after
             ELSE mistralSearchLoop(Tail(sessions), query, limit, after)

MistralSearchSessions(projectPath, query, limit) ==
    LET listed == MistralListSessions(projectPath, 0)
    IN  IF listed.err # <<>> THEN listed
        ELSE ListResult(<<>>, mistralSearchLoop(listed.sessions, ToLower(query), limit, <<>>),
                        <<>>)

\* CopilotAdapter.SearchSessions, the loop over the files: a file that cannot be
\* opened or is of another project is passed over; a content hit is appended and
\* the limit is tested.
RECURSIVE copilotSearchLoop(_, _, _, _, _)
copilotSearchLoop(files, absPath, query, limit, matches) ==
    IF files = <<>> THEN matches
    ELSE LET key == Head(files)
             after == Append(matches, parseSessionMetadata("copilot", key))
         IN  IF \/ ~flatFileExists("copilot", key)
                \/ ~sessionMeta["copilot"][key].ok
                \/ absPath # "" /\ flatProjectPath("copilot", key) # absPath
                \/ ~flatContentHit("copilot", key, query)
             THEN copilotSearchLoop(Tail(files), absPath, query, limit, matches)
             ELSE IF limit > 0 /\ Len(after) >= limit THEN after
             ELSE copilotSearchLoop(Tail(files), absPath, query, limit, after)

CopilotSearchSessions(projectPath, query, limit) ==
    LET absPath == IF projectPath # "" THEN Abs(projectPath) ELSE ""
    IN  ListResult(<<>>,
                   NewestFirst(copilotSearchLoop(GlobOrder, absPath, ToLower(query),
                                                 limit, <<>>)),
                   <<>>)

\* ------------------------------------------------- the search index cache
\* The files that back the sessions.
Files ==
    {DbPath} \cup { LegacyPath(p, k) : p \in ProjectIDs, k \in SessionIDs }
             \cup { FlatPath(a, k) : a \in FlatAdapters, k \in SessionIDs }

\* The files that are there: the database, the session files of the legacy store
\* and of the flat adapters.
TrackedFiles ==
    (IF dbStatus = "ok" THEN {DbPath} ELSE {})
    \cup (IF storageStatus = "ok"
          THEN { LegacyPath(sessionMeta["files"][k].project, k) : k \in fileSessions }
          ELSE {})
    \cup UNION { { FlatPath(a, k) : k \in { j \in SessionIDs : flatFileExists(a, j) } } :
                 a \in FlatAdapters }

NoEntry ==
    [fingerprint |-> 0, source |-> "", session |-> Session("", "", "", "", 0, "", 0),
     content |-> <<>>]

\* The calls of the cache that fail: none of them, in the normal run.
NoFaults == [check |-> {}, write |-> {}, search |-> FALSE]

NeedsReindexFails(sessionID) == sessionID \in cacheFaults.check
IndexSessionFails(sessionID) == sessionID \in cacheFaults.write
SearchFails == cacheFaults.search

\* The session ids that have a document in the index.
Documents(idx) == { s \in SessionIDs : idx[s] # NoEntry }

\* NeedsReindex: no entry for the session id, or the fingerprint stored with the
\* entry differs from the current fingerprint of the file.
NeedsReindex(idx, sessionID, filePath) ==
    idx[sessionID] = NoEntry \/ idx[sessionID].fingerprint # fingerprint[filePath]

\* IndexSession: the document of the session id is written, replacing any earlier
\* one, with the fingerprint of the session's file.
IndexSession(idx, source, session, content) ==
    [idx EXCEPT ![session.id] =
        [fingerprint |-> fingerprint[session.filePath], source |-> source,
         session |-> session, content |-> content]]

\* The words of a text.  The text indexed for a session is its parts joined by " ";
\* a part of this corpus is one word or white space, and a query is one word.
Words(parts) == SelectSeq(parts, LAMBDA part : TrimSpace(part) # "")

\* Tokenize: the tokens of a text, its words in lower case.
Tokenize(parts) == [i \in 1..Len(Words(parts)) |-> ToLower(Words(parts)[i])]

\* The term statistics of a document and of the corpus.
TermFrequency(entry, term) ==
    Cardinality({ i \in DOMAIN Tokenize(entry.content) :
                    Tokenize(entry.content)[i] = term })

DocLength(entry) == Len(Tokenize(entry.content))

DocFrequency(idx, term) ==
    Cardinality({ s \in Documents(idx) : TermFrequency(idx[s], term) > 0 })

RECURSIVE TotalLength(_, _)
TotalLength(idx, S) ==
    IF S = {} THEN 0
    ELSE LET s == CHOOSE t \in S : TRUE
         IN  DocLength(idx[s]) + TotalLength(idx, S \ {s})

\* BM25: the score of a document for the tokens of a query is the sum over the
\* tokens of idf * tf * (k1 + 1) / (tf + k1 * (1 - b + b * length / average length)),
\* where tf is the frequency of the token in the document and idf falls with the
\* number of documents of the corpus that hold the token.  The constants k1 and b
\* are the cache's; a score is written as the arguments it is computed from.
BM25(idx, s, tokens) ==
    [tf |-> [i \in 1..Len(tokens) |-> TermFrequency(idx[s], tokens[i])],
     df |-> [i \in 1..Len(tokens) |-> DocFrequency(idx, tokens[i])],
     length |-> DocLength(idx[s]),
     docs |-> Cardinality(Documents(idx)),
     total |-> TotalLength(idx, Documents(idx))]

\* A score of the same query and corpus that is the higher one whatever k1 > 0
\* and 0 <= b <= 1 are: no token is less frequent, one is more frequent, and the
\* document is not longer.
Outranks(x, y) ==
    /\ \A i \in DOMAIN x.tf : x.tf[i] >= y.tf[i]
    /\ \E i \in DOMAIN x.tf : x.tf[i] > y.tf[i]
    /\ x.length <= y.length

\* The documents of S best score first; ties gives the order of the documents
\* whose scores are equal or depend on k1 and b.
RECURSIVE BestFirst(_, _, _, _)
BestFirst(idx, S, tokens, ties) ==
    IF S = {} THEN <<>>
    ELSE LET best == { s \in S : \A t \in S :
                          ~Outranks(BM25(idx, t, tokens), BM25(idx, s, tokens)) }
             top == Among(ties, best)[1]
         IN  <<top>> \o BestFirst(idx, S \ {top}, tokens, ties)

\* The normalized score of a match: the score, set against the scores of the matches.
Normalized(score, scores) == [of |-> score, among |-> scores]

\* The snippet of a match: the words around the first token of the document that
\* is a token of the query, with an ellipsis marker where the text is clipped.
SnippetRadius == 1
Ellipsis == "..."

Snippet(entry, tokens) ==
    LET words == Words(entry.content)
        hit(i) == \E t \in 1..Len(tokens) : Tokenize(words)[i] = tokens[t]
        first == CHOOSE i \in 1..Len(words) : hit(i) /\ \A j \in 1..(i - 1) : ~hit(j)
        lo == IF first - SnippetRadius < 1 THEN 1 ELSE first - SnippetRadius
        hi == Min(Len(words), first + SnippetRadius)
    IN  (IF lo > 1 THEN <<Ellipsis>> ELSE <<>>)
        \o SubSeq(words, lo, hi)
        \o (IF hi < Len(words) THEN <<Ellipsis>> ELSE <<>>)

\* Search: the indexed documents that hold a token of the query and pass the source
\* and project filters, best BM25 score first, at most limit of them, each with the
\* session, the normalized score and a snippet.
Search(idx, query, source, projectPath, limit, ties) ==
    LET tokens == Tokenize(<<query>>)
        hits == { s \in Documents(idx) :
                    /\ \E i \in 1..Len(tokens) : TermFrequency(idx[s], tokens[i]) > 0
                    /\ source = "" \/ idx[s].source = source
                    /\ projectPath = "" \/ idx[s].session.project = projectPath }
        scores == { BM25(idx, s, tokens) : s \in hits }
        ranked == ApplyLimit(BestFirst(idx, hits, tokens, ties), limit)
    IN  [i \in 1..Len(ranked) |->
            [session |-> idx[ranked[i]].session,
             score |-> Normalized(BM25(idx, ranked[i], tokens), scores),
             snippet |-> Snippet(idx[ranked[i]], tokens)]]

\* The orders in which documents of one rank can come.
TieOrders == Orders(SessionIDs)

\* ------------------------------------------------- list_sessions, search_sessions
KnownAdapters == Sources      \* the keys of adaptersMap

\* The adapters claude, gemini and codex list no session: their stores hold none.
adapterListSessions(source, projectPath, limit) ==
    CASE source = "opencode" -> ListSessions(projectPath, limit)
      [] source = "mistral" -> MistralListSessions(projectPath, limit)
      [] source = "copilot" -> CopilotListSessions(projectPath, limit)
      [] OTHER -> ListResult(<<>>, <<>>, <<>>)

\* adaptersToQuery, a map: the adapter of the source, every adapter when no source
\* is given.
adaptersToQuery(source) ==
    IF source = "" THEN KnownAdapters
    ELSE IF source \in KnownAdapters THEN {source}
    ELSE {}

\* for _, adapter := range adaptersToQuery: Go yields the entries of a map in an
\* order that is not specified and differs from one range to the next.  The
\* adapters that list no session add nothing wherever the range meets them: the
\* orders drawn are these adapters, then the others in every order.
RangeOrders(source) ==
    LET queried == adaptersToQuery(source)
        first == Among(<<"claude", "gemini", "codex">>, queried)
    IN  { first \o rest : rest \in Orders(queried \ OtherAdapters) }

\* The element of a set of one element: The({ e(x) : x \in {v} }) is e at v, with v
\* worked out once.
The(S) == CHOOSE x \in S : TRUE

RECURSIVE listAll(_, _, _)
listAll(adapterSeq, projectPath, limit) ==
    IF adapterSeq = <<>> THEN <<>>
    ELSE The({ (IF listed.err # <<>> THEN <<>> ELSE listed.sessions)
               \o listAll(Tail(adapterSeq), projectPath, limit) :
               listed \in {adapterListSessions(Head(adapterSeq), projectPath, limit)} })

ToolList(err, sessions) == [err |-> err, sessions |-> sessions]

\* list_sessions; order is the order in which the range yields the adapters.
listSessionsTool(source, projectPath, limit0, order) ==
    LET limit == IF limit0 = 0 THEN DefaultListLimit ELSE limit0
    IN  IF source # "" /\ source \notin KnownAdapters
        THEN ToolList(<<"unknown source">>, <<>>)
        ELSE ToolList(<<>>, ApplyLimit(NewestFirst(listAll(Among(order, adaptersToQuery(source)),
                                                          projectPath, limit)), limit))

\* The text indexed for a session: its first message, its title and the content of
\* its messages, those that are not empty.
contentParts(session, messages) ==
    (IF session.firstMessage # "" THEN <<session.firstMessage>> ELSE <<>>)
    \o (IF session.summary # "" THEN <<session.summary>> ELSE <<>>)
    \o LET kept == SelectSeq(messages, LAMBDA m : m.content # "")
       IN  [i \in 1..Len(kept) |-> kept[i].content]

\* The sweep carries the index and the sessions IndexSession was called for.
Sweep(idx, calls) == [index |-> idx, calls |-> calls]

\* One round of the loop of indexSessions over the sessions an adapter lists.
indexListedSession(sw, source, session) ==
    IF NeedsReindexFails(session.id) THEN sw
    ELSE IF ~NeedsReindex(sw.index, session.id, session.filePath) THEN sw
    ELSE The({ IF fetched.err # <<>> THEN sw
               ELSE IF IndexSessionFails(session.id)
                    THEN Sweep(sw.index, Append(sw.calls, session.id))
               ELSE Sweep(IndexSession(sw.index, source, session,
                                       contentParts(session, fetched.messages)),
                          Append(sw.calls, session.id)) :
               fetched \in {adapterGetSession(source, session.id, 0, IndexPageSize)} })

RECURSIVE indexListed(_, _, _)
indexListed(sw, source, sessions) ==
    IF sessions = <<>> THEN sw
    ELSE The({ indexListed(next, source, Tail(sessions)) :
               next \in {indexListedSession(sw, source, Head(sessions))} })

\* Faulty variant: the documents of the adapter's sessions that are no longer
\* listed are dropped.
indexAdapterEvicting(sw, source, projectPath) ==
    The({ IF listed.err # <<>> THEN sw
          ELSE indexListed(
                   Sweep([s \in SessionIDs |->
                             IF /\ sw.index[s].source = source
                                /\ \A i \in 1..Len(listed.sessions) : listed.sessions[i].id # s
                             THEN NoEntry ELSE sw.index[s]], sw.calls),
                   source, listed.sessions) :
          listed \in {adapterListSessions(source, projectPath, 0)} })

\* Faulty variant: a session that cannot be fetched ends the sweep of its adapter.
indexAdapterGivingUp(sw, source, projectPath) ==
    The({ IF listed.err # <<>> THEN sw
          ELSE IF \E i \in 1..Len(listed.sessions) :
                     adapterGetSession(source, listed.sessions[i].id, 0,
                                       IndexPageSize).err # <<>>
               THEN sw
          ELSE indexListed(sw, source, listed.sessions) :
          listed \in {adapterListSessions(source, projectPath, 0)} })

\* One round of the loop of indexSessions over the adapters.
indexAdapter(sw, source, projectPath) ==
    The({ IF listed.err # <<>> THEN sw ELSE indexListed(sw, source, listed.sessions) :
          listed \in {adapterListSessions(source, projectPath, 0)} })

RECURSIVE indexAdapters(_, _, _)
indexAdapters(sw, adapterSeq, projectPath) ==
    IF adapterSeq = <<>> THEN sw
    ELSE The({ indexAdapters(next, Tail(adapterSeq), projectPath) :
               next \in {indexAdapter(sw, Head(adapterSeq), projectPath)} })

\* indexSessions always returns nil: the index after the sweep, with the calls made;
\* order is the order in which the range yields the adapters.
indexSessions(idx, source, projectPath, order) ==
    indexAdapters(Sweep(idx, <<>>), Among(order, adaptersToQuery(source)), projectPath)

\* search_sessions: the index after the sweep and the matches found in it, or the
\* error of a Search that fails after the sweep.
searchSessionsTool(query, source, projectPath, limit0, order, ties) ==
    LET limit == IF limit0 = 0 THEN DefaultListLimit ELSE limit0
    IN  IF query = ""
        THEN [err |-> <<"query is required">>, matches |-> <<>>, index |-> index,
              indexed |-> <<>>]
        ELSE The({ IF SearchFails
                   THEN [err |-> <<"search failed">>, matches |-> <<>>,
                         index |-> swept.index, indexed |-> swept.calls]
                   ELSE [err |-> <<>>, index |-> swept.index, indexed |-> swept.calls,
                         matches |-> Search(swept.index, query, source, projectPath,
                                            limit, ties)] :
                   swept \in {indexSessions(index, source, projectPath, order)} })

\* ------------------------------------------------------------ the calls
\* The server handles one request at a time: a call is made when no response is
\* pending, and its response is delivered before the next call or store change.
Pages == 0..MaxPage
Sizes == 1..MaxSize

Idle ==
    [op |-> "none", source |-> "", sid |-> "", page |-> 0, pageSize |-> 0,
     fromEnd |-> FALSE, path |-> "", query |-> "", limit |-> 0,
     err |-> <<>>, messages |-> <<>>, total |-> 0, resolved |-> 0, hasMore |-> FALSE,
     sessions |-> <<>>, tried |-> <<>>, totalPages |-> 0, prev |-> "none",
     indexed |-> <<>>, before |-> {}, usedPage |-> 0, usedSize |-> 0, order |-> <<>>,
     matches |-> <<>>, ties |-> <<>>]

\* The store that served a response: the last one tried, unless the call failed.
Origin(r) ==
    IF r.tried = <<>> THEN "none"
    ELSE IF r.err # <<>> THEN "failed"
    ELSE r.tried[Len(r.tried)]

PageResp(op, source, sid, page, pageSize, fromEnd, r) ==
    [Idle EXCEPT !.op = op, !.source = source, !.sid = sid, !.page = page,
                 !.pageSize = pageSize, !.fromEnd = fromEnd, !.err = r.err,
                 !.messages = r.messages, !.total = r.total, !.resolved = r.resolved,
                 !.hasMore = r.hasMore, !.tried = r.tried, !.prev = lastOrigin]

ListResp(op, path, query, limit, r) ==
    [Idle EXCEPT !.op = op, !.source = "opencode", !.path = path, !.query = query,
                 !.limit = limit, !.err = r.err, !.sessions = r.sessions,
                 !.tried = r.tried, !.prev = lastOrigin]

Respond(r) ==
    /\ resp = Idle
    /\ resp' = r
    /\ lastOrigin' = IF r.source = "opencode" THEN Origin(r) ELSE lastOrigin
    /\ UNCHANGED <<stores, index, fingerprint, cacheFaults>>

CallGetSessionPage ==
    \E sid \in SessionIDs, page \in Pages, pageSize \in Sizes, fromEnd \in BOOLEAN :
        Respond(PageResp("GetSessionPage", "opencode", sid, page, pageSize, fromEnd,
                         GetSessionPage(sid, page, pageSize, fromEnd)))

CallGetSession ==
    \E sid \in SessionIDs, page \in Pages, pageSize \in Sizes :
        Respond(PageResp("GetSession", "opencode", sid, page, pageSize, FALSE,
                         GetSession(sid, page, pageSize)))

\* A call of the get_session tool; the response carries the page and the page size
\* the handler reports ("page", "page_size") next to the requested ones.
ToolResp(source, sid, page, pageSize, fromEnd, r) ==
    [Idle EXCEPT !.op = "get_session", !.source = source, !.sid = sid, !.page = page,
                 !.pageSize = pageSize, !.fromEnd = fromEnd, !.err = r.err,
                 !.messages = r.messages, !.total = r.total, !.resolved = r.resolved,
                 !.hasMore = r.hasMore, !.tried = r.tried, !.prev = lastOrigin,
                 !.totalPages = r.totalPages, !.usedPage = r.page,
                 !.usedSize = r.pageSize]

GetSessionToolCall(sources, pages, sizes) ==
    /\ resp = Idle
    /\ \E source \in sources, sid \in SessionIDs, page \in pages, pageSize \in sizes,
          fromEnd \in BOOLEAN :
           \E r \in {getSessionTool(source, sid, page, pageSize, fromEnd)} :
               \E answer \in {ToolResp(source, sid, page, pageSize, fromEnd, r)} :
                   Respond(answer)

CallGetSessionTool == GetSessionToolCall(SourceArgs, Pages, Sizes)

\* page and page_size are JSON integers: zero and negative values reach the handler.
AnyPages == (-1)..MaxPage
AnySizes == (-2)..MaxSize

CallGetSessionToolAnyArgs == GetSessionToolCall(SourceArgs \cap Sources, AnyPages, AnySizes)

CallListSessions ==
    \E path \in PathArgs, limit \in Limits :
        Respond(ListResp("ListSessions", path, "", limit, ListSessions(path, limit)))

\* A call of the list_sessions tool.
CallListSessionsTool ==
    /\ resp = Idle
    /\ \E source \in SourceArgs \cup {""}, path \in ToolPaths, limit \in ToolLimits :
        \E order \in RangeOrders(source) :
        \E r \in {listSessionsTool(source, path, limit, order)} :
            Respond([Idle EXCEPT !.op = "list_sessions", !.source = source, !.path = path,
                                 !.limit = limit, !.order = order, !.err = r.err,
                                 !.sessions = r.sessions, !.prev = lastOrigin])

\* A call of the search_sessions tool: the sweep changes the index.
SearchSessionsToolCall(sources, paths, queries, limits) ==
    /\ resp = Idle
    /\ \E source \in sources, path \in paths, query \in queries, limit \in limits :
        \E order \in RangeOrders(source), ties \in TieOrders :
        \E r \in {searchSessionsTool(query, source, path, limit, order, ties)} :
            /\ resp' = [Idle EXCEPT !.op = "search_sessions", !.source = source,
                                    !.path = path, !.query = query, !.limit = limit,
                                    !.order = order, !.ties = ties,
                                    !.err = r.err, !.matches = r.matches,
                                    !.indexed = r.indexed, !.before = Documents(index),
                                    !.prev = lastOrigin]
            /\ index' = r.index
            /\ UNCHANGED <<stores, fingerprint, cacheFaults, lastOrigin>>

CallSearchSessionsTool ==
    SearchSessionsToolCall(SourceArgs \cup {""}, ToolPaths, ToolQueries, ToolLimits)

\* The same call with one query and no limit: the sweep depends on neither.
CallSearchSessionsToolSweep ==
    SearchSessionsToolCall(SourceArgs \cup {""}, ToolPaths, {"alpha"}, {0})

\* A session goes: its row or its file is deleted, or its file is overwritten
\* with something that does not parse (legacy store, Mistral) or can no longer be
\* opened (Copilot).
SessionLost ==
    /\ resp = Idle
    /\ \E k \in SessionIDs :
          \/ /\ k \in dbSessions
             /\ dbSessions' = dbSessions \ {k}
             /\ UNCHANGED <<fileSessions, flatMessages, sessionMeta>>
          \/ /\ k \in fileSessions
             /\ fileSessions' = fileSessions \ {k}
             /\ UNCHANGED <<dbSessions, flatMessages, sessionMeta>>
          \/ \E a \in FlatAdapters :
                /\ flatFileExists(a, k)
                /\ flatMessages' = [flatMessages EXCEPT ![a][k] = NoDir]
                /\ UNCHANGED <<dbSessions, fileSessions, sessionMeta>>
          \/ \E st \in Stores \ {"sqlite"} :
                /\ sessionMeta[st][k].ok
                /\ st = "files" => k \in fileSessions
                /\ st \in FlatAdapters => flatFileExists(st, k)
                /\ sessionMeta' = [sessionMeta EXCEPT ![st][k].ok = FALSE]
                /\ UNCHANGED <<dbSessions, fileSessions, flatMessages>>
    /\ UNCHANGED <<dbStatus, dbMessages, storageStatus, fileMessages, projects, index,
                   fingerprint, cacheFaults, resp, lastOrigin, rowOrder, partStore, built>>

\* A file that backs sessions is written: its fingerprint changes.
FileChanges ==
    /\ resp = Idle
    /\ \E f \in TrackedFiles : \E p \in (1..MaxPrint) \ {fingerprint[f]} :
          fingerprint' = [fingerprint EXCEPT ![f] = p]
    /\ UNCHANGED <<stores, index, cacheFaults, resp, lastOrigin>>

CallSearchSessions ==
    \E path \in PathArgs, query \in Queries, limit \in Limits :
        Respond(ListResp("SearchSessions", path, query, limit,
                         SearchSessions(path, query, limit)))

CallFlatSearchSessions ==
    \E adapter \in FlatAdapters, path \in PathArgs, query \in Queries, limit \in Limits :
        LET r == IF adapter = "mistral" THEN MistralSearchSessions(path, query, limit)
                 ELSE CopilotSearchSessions(path, query, limit)
        IN  Respond([ListResp("SearchSessions", path, query, limit, r)
                        EXCEPT !.source = adapter])

CallFlatListSessions ==
    \E adapter \in FlatAdapters, path \in PathArgs, limit \in Limits :
        LET r == IF adapter = "mistral" THEN MistralListSessions(path, limit)
                 ELSE CopilotListSessions(path, limit)
        IN  Respond([ListResp("ListSessions", path, "", limit, r) EXCEPT !.source = adapter])

\* The response is returned to the caller.
Deliver ==
    /\ resp # Idle
    /\ resp' = Idle
    /\ UNCHANGED <<stores, index, fingerprint, cacheFaults, lastOrigin>>

\* ----------------------------------------------------- the environment
\* opencode.db appears, disappears or becomes unusable between calls.
DbChanges ==
    /\ resp = Idle
    /\ dbStatus' \in {"absent", "unopenable", "noschema", "ok"} \ {dbStatus}
    /\ UNCHANGED <<dbSessions, dbMessages, storageStatus, fileSessions, fileMessages,
                   flatMessages, sessionMeta, projects, index, fingerprint, cacheFaults,
                   resp, lastOrigin, rowOrder, partStore, built>>

\* The legacy storage directory appears, disappears or loses its session directory.
StorageChanges ==
    /\ resp = Idle
    /\ storageStatus' \in {"absent", "nosessiondir", "ok"} \ {storageStatus}
    /\ UNCHANGED <<dbStatus, dbSessions, dbMessages, fileSessions, fileMessages,
                   flatMessages, sessionMeta, projects, index, fingerprint, cacheFaults,
                   resp, lastOrigin, rowOrder, partStore, built>>

\* GetSessionPage reads the stored message from the backend that holds it.
ReadSQLiteMessage ==
    /\ partStore.backend = "sqlite"
    /\ built.stage = "none"
    /\ built' = sqliteMessage(partStore.rows, partStore.inline)
    /\ UNCHANGED <<dbStatus, dbSessions, dbMessages, storageStatus, fileSessions,
                   fileMessages, flatMessages, sessionMeta, projects, index, fingerprint,
                   cacheFaults, resp, lastOrigin, rowOrder, partStore>>

ReadFileMessage ==
    /\ partStore.backend = "files"
    /\ built.stage = "none"
    /\ built' = fileMessage(partStore.inline)
    /\ UNCHANGED <<dbStatus, dbSessions, dbMessages, storageStatus, fileSessions,
                   fileMessages, flatMessages, sessionMeta, projects, index, fingerprint,
                   cacheFaults, resp, lastOrigin, rowOrder, partStore>>

\* The get_session handler passes the message on.
ReturnMessage ==
    /\ built.stage = "adapter"
    /\ built' = toolMessage(built)
    /\ UNCHANGED <<dbStatus, dbSessions, dbMessages, storageStatus, fileSessions,
                   fileMessages, flatMessages, sessionMeta, projects, index, fingerprint,
                   cacheFaults, resp, lastOrigin, rowOrder, partStore>>

\* ------------------------------------------------------------ the specs
Only(sid, rows, none) == [s \in SessionIDs |-> IF s = sid THEN rows ELSE none]

\* Several sessions with short histories in the two opencode stores.
Init ==
    /\ dbStatus \in {"absent", "unopenable", "noschema", "ok"}
    /\ storageStatus \in {"absent", "nosessiondir", "ok"}
    /\ dbSessions \in SUBSET SessionIDs
    /\ fileSessions \in SUBSET SessionIDs
    /\ dbMessages = [s \in SessionIDs |->
                        IF s \in dbSessions THEN MkRows(DualMsgs, 0) ELSE <<>>]
    /\ fileMessages = [s \in SessionIDs |->
                        IF s \in fileSessions THEN MkRows(DualMsgs, 0) ELSE NoDir]
    /\ flatMessages = [a \in FlatAdapters |-> [s \in SessionIDs |-> NoDir]]
    /\ sessionMeta = [st \in Stores |-> [k \in SessionIDs |-> WellKept(k)]]
    /\ index = [s \in SessionIDs |-> NoEntry]
    /\ fingerprint = [f \in Files |-> 1]
    /\ cacheFaults = NoFaults
    /\ resp = Idle
    /\ lastOrigin = "none"
    /\ rowOrder = GlobOrder
    /\ projects = WellKeptProjects
    /\ partStore = NoParts
    /\ built = NoMessage

Next ==
    \/ CallListSessions
    \/ CallSearchSessions
    \/ CallGetSessionPage
    \/ CallGetSession
    \/ Deliver
    \/ DbChanges
    \/ StorageChanges

Spec == Init /\ [][Next]_vars

\* The tools over the opencode stores, with the search index cache.
InitTools ==
    /\ dbStatus \in {"absent", "ok"}
    /\ storageStatus = "ok"
    /\ dbSessions = SessionIDs
    /\ fileSessions = SessionIDs
    /\ dbMessages = [s \in SessionIDs |-> MkRows(DualMsgs, 0)]
    /\ fileMessages = [s \in SessionIDs |-> MkRows(DualMsgs, 0)]
    /\ flatMessages = [a \in FlatAdapters |-> [s \in SessionIDs |-> NoDir]]
    /\ sessionMeta = [st \in Stores |-> [k \in SessionIDs |-> WellKept(k)]]
    /\ index = [s \in SessionIDs |-> NoEntry]
    /\ fingerprint = [f \in Files |-> 1]
    /\ cacheFaults = NoFaults
    /\ resp = Idle
    /\ lastOrigin = "none"
    /\ rowOrder = GlobOrder
    /\ projects = WellKeptProjects
    /\ partStore = NoParts
    /\ built = NoMessage

NextTools ==
    \/ CallListSessionsTool
    \/ CallSearchSessionsTool
    \/ CallGetSessionTool
    \/ FileChanges
    \/ Deliver

SpecTools == InitTools /\ [][NextTools]_vars

\* The sweep of search_sessions over the sessions of one store, the other stores
\* being empty or not there; the cache works or fails for ses_one.
SweepMetaFamily(store) ==
    IF store = "sqlite" THEN { [k \in SessionIDs |-> WellKept(k)] }
    ELSE { [k \in SessionIDs |->
              IF k = "ses_one" THEN [WellKept(k) EXCEPT !.ok = o]
              ELSE [WellKept(k) EXCEPT !.id = i]] :
           o \in BOOLEAN, i \in SessionIDs }

\* What a SQLite message row that yields no Message holds: text that is no JSON,
\* JSON without a role ([]), or an object with the role that is no message
\* ({"role": "user", "time": 5}).
BadKinds == {"text", "array", "object"}

Malformed(rows, bad, kind) ==
    IF bad = 0 \/ kind = "text" THEN rows
    ELSE [rows EXCEPT ![bad].json = TRUE,
                      ![bad].role = IF kind = "array" THEN "" ELSE @]

FaultFamily ==
    {NoFaults, [NoFaults EXCEPT !.check = {"ses_one"}],
     [NoFaults EXCEPT !.write = {"ses_one"}], [NoFaults EXCEPT !.search = TRUE]}

InitSweep ==
    /\ \E store \in Stores, meta \in UNION { SweepMetaFamily(st) : st \in Stores },
          bad \in 0..1, kind \in BadKinds :
          /\ meta \in SweepMetaFamily(store)
          /\ bad = 1 => store = "sqlite"
          /\ bad = 0 => kind = "text"
          /\ dbStatus = IF store = "sqlite" THEN "ok" ELSE "absent"
          /\ storageStatus \in IF store = "files" THEN {"ok"}
                              ELSE IF store = "sqlite" THEN {"absent"}
                              ELSE {"absent", "nosessiondir"}
          /\ dbSessions = IF store = "sqlite" THEN SessionIDs ELSE {}
          /\ fileSessions = IF store = "files" THEN SessionIDs ELSE {}
          /\ sessionMeta = [st \in Stores |->
                               IF st = store THEN meta ELSE [k \in SessionIDs |-> WellKept(k)]]
          /\ dbMessages = [s \in SessionIDs |->
                              IF store # "sqlite" THEN <<>>
                              ELSE IF s = "ses_one"
                                   THEN Malformed(MkRows(DualMsgs, bad), bad, kind)
                              ELSE MkRows(DualMsgs, 0)]
          /\ fileMessages = [s \in SessionIDs |->
                                IF store = "files" THEN MkRows(DualMsgs, 0) ELSE NoDir]
          /\ flatMessages = [a \in FlatAdapters |-> [s \in SessionIDs |->
                                IF store = a THEN MkRows(DualMsgs, 0) ELSE NoDir]]
    /\ index = [s \in SessionIDs |-> NoEntry]
    /\ fingerprint = [f \in Files |-> 1]
    /\ cacheFaults \in FaultFamily
    /\ resp = Idle
    /\ lastOrigin = "none"
    /\ rowOrder = GlobOrder
    /\ projects = WellKeptProjects
    /\ partStore = NoParts
    /\ built = NoMessage

NextSweep ==
    \/ CallSearchSessionsToolSweep
    \/ FileChanges
    \/ SessionLost
    \/ Deliver

SpecSweep == InitSweep /\ [][NextSweep]_vars

\* One session with a long history in one of the stores.
InitPaging ==
    /\ dbStatus \in {"absent", "ok"}
    /\ storageStatus \in {"absent", "ok"}
    /\ dbSessions = {"ses_one"}
    /\ fileSessions = {"ses_one"}
    /\ \E store \in {"sqlite", "files"} \cup FlatAdapters, rows \in RowFamily \cup {NoDir} :
          /\ store = "sqlite" => rows # NoDir
          /\ dbMessages = Only("ses_one",
                               IF store = "sqlite" THEN rows ELSE MkRows(DualMsgs, 0), <<>>)
          /\ fileMessages = Only("ses_one",
                               IF store = "files" THEN rows ELSE MkRows(DualMsgs, 0), NoDir)
          /\ flatMessages = [a \in FlatAdapters |->
                               Only("ses_one", IF store = a THEN rows ELSE NoDir, NoDir)]
    /\ sessionMeta = [st \in Stores |-> [k \in SessionIDs |-> WellKept(k)]]
    /\ index = [s \in SessionIDs |-> NoEntry]
    /\ fingerprint = [f \in Files |-> 1]
    /\ cacheFaults = NoFaults
    /\ resp = Idle
    /\ lastOrigin = "none"
    /\ rowOrder = GlobOrder
    /\ projects = WellKeptProjects
    /\ partStore = NoParts
    /\ built = NoMessage

NextPaging ==
    \/ CallGetSessionPage
    \/ CallGetSession
    \/ CallGetSessionTool
    \/ Deliver

SpecPaging == InitPaging /\ [][NextPaging]_vars

\* The same stores, get_session called with every integer page and page size.
NextRange ==
    \/ CallGetSessionToolAnyArgs
    \/ Deliver

SpecRange == InitPaging /\ [][NextRange]_vars

\* One stored opencode message, with every combination of part rows and inline
\* content; the legacy store has no part rows.
InitParts ==
    /\ dbStatus = "ok"
    /\ storageStatus = "ok"
    /\ dbSessions = {"ses_one"}
    /\ fileSessions = {"ses_one"}
    /\ dbMessages = Only("ses_one", MkRows(1, 0), <<>>)
    /\ fileMessages = Only("ses_one", MkRows(1, 0), NoDir)
    /\ flatMessages = [a \in FlatAdapters |-> [k \in SessionIDs |-> NoDir]]
    /\ sessionMeta = [st \in Stores |-> [k \in SessionIDs |-> WellKept(k)]]
    /\ index = [s \in SessionIDs |-> NoEntry]
    /\ fingerprint = [f \in Files |-> 1]
    /\ cacheFaults = NoFaults
    /\ resp = Idle
    /\ lastOrigin = "none"
    /\ rowOrder = GlobOrder
    /\ projects = WellKeptProjects
    /\ partStore \in { PartStore("sqlite", rows, inline) :
                          rows \in SeqsUpTo(Parts, MaxParts), inline \in Contents }
                     \cup { PartStore("files", <<>>, inline) : inline \in Contents }
    /\ built = NoMessage

NextParts ==
    \/ ReadSQLiteMessage
    \/ ReadFileMessage
    \/ ReturnMessage

SpecParts == InitParts /\ [][NextParts]_vars

\* Two session records in every store; in one store they are not well kept: a record
\* that does not parse (a Copilot file: that cannot be opened), two records naming the same session, records without a
\* creation time or with equal ones, user messages with blank content.
ListTimes == {0, 2000, 3000}

MetaFamily(store) ==
    IF store = "sqlite"
    THEN { [k \in SessionIDs |-> [WellKept(k) EXCEPT !.created = c[k]]] :
           c \in [SessionIDs -> ListTimes \ {0}] }
    ELSE { [k \in SessionIDs |->
              IF k = "ses_one"
              THEN [WellKept(k) EXCEPT !.ok = o, !.created = c[k]]
              ELSE [WellKept(k) EXCEPT !.id = i, !.created = c[k]]] :
           o \in BOOLEAN, i \in SessionIDs, c \in [SessionIDs -> ListTimes] }

\* The texts a record is stored with: one that is not blank, or white space.  The
\* legacy reader and the Mistral and Copilot readers treat all white space alike.
HasText == "<text>"
Texts(store) ==
    CASE store = "sqlite" -> {HasText, "", " ", "\t"}
      [] store = "files" -> {HasText, ""}
      [] OTHER -> {HasText, "", " "}

UserRowFamily(store) ==
    { [n \in 1..DualMsgs |->
         [Row(n, TRUE) EXCEPT !.role = IF allUser THEN "user" ELSE @,
                              !.blank = (text[n] # HasText),
                              !.white = IF text[n] = HasText THEN "" ELSE text[n]]] :
      allUser \in BOOLEAN, text \in [1..DualMsgs -> Texts(store)] }

InitListing ==
    /\ storageStatus = "ok"
    /\ dbSessions = SessionIDs
    /\ fileSessions = SessionIDs
    /\ \E store \in Stores, meta \in UNION { MetaFamily(st) : st \in Stores },
          rows \in UNION { UserRowFamily(st) : st \in Stores } :
          /\ meta \in MetaFamily(store)
          /\ rows \in UserRowFamily(store)
          /\ dbStatus = IF store = "files" THEN "absent" ELSE "ok"
          /\ rowOrder \in IF store = "sqlite" THEN Orders(SessionIDs) ELSE {GlobOrder}
          /\ sessionMeta = [st \in Stores |->
                               IF st = store THEN meta ELSE [k \in SessionIDs |-> WellKept(k)]]
          /\ dbMessages = [s \in SessionIDs |->
                              IF store = "sqlite" /\ s = "ses_one"
                              THEN rows ELSE MkRows(DualMsgs, 0)]
          /\ fileMessages = [s \in SessionIDs |->
                                IF store = "files" /\ s = "ses_one"
                                THEN rows ELSE MkRows(DualMsgs, 0)]
          /\ flatMessages = [a \in FlatAdapters |-> [s \in SessionIDs |->
                                IF store = a /\ s = "ses_one"
                                THEN rows ELSE MkRows(DualMsgs, 0)]]
    /\ projects = WellKeptProjects
    /\ index = [s \in SessionIDs |-> NoEntry]
    /\ fingerprint = [f \in Files |-> 1]
    /\ cacheFaults = NoFaults
    /\ resp = Idle
    /\ lastOrigin = "none"
    /\ partStore = NoParts
    /\ built = NoMessage

NextListing ==
    \/ CallListSessions
    \/ CallSearchSessions
    \/ CallFlatListSessions
    \/ CallFlatSearchSessions
    \/ Deliver

SpecListing == InitListing /\ [][NextListing]_vars

\* The projects of one store, kept well or not: a project row or file may be
\* missing, two projects may name one worktree, a project file may name another
\* id than its own, an entry of storage/session may be a plain file; the sessions
\* lie in either project.
ProjectFamily(store) ==
    CASE store = "sqlite" ->
            { [p \in ProjectIDs |-> opencodeProject(ok[p], p, worktree[p], TRUE)] :
              ok \in [ProjectIDs -> BOOLEAN], worktree \in [ProjectIDs -> ProjectPaths] }
      [] store = "files" ->
            { [p \in ProjectIDs |-> opencodeProject(ok[p], id[p], worktree[p], isDir[p])] :
              ok \in [ProjectIDs -> BOOLEAN], id \in [ProjectIDs -> ProjectIDs],
              worktree \in [ProjectIDs -> ProjectPaths], isDir \in [ProjectIDs -> BOOLEAN] }
      [] OTHER -> { WellKeptProjects["files"] }

\* A record that is not there holds nothing: its id and worktree are left as kept.
Settled(family) ==
    { proj \in family :
        \A p \in ProjectIDs : ~proj[p].ok => proj[p].id = p /\ proj[p].worktree = Worktree(p) }

InitProjects ==
    /\ storageStatus = "ok"
    /\ dbSessions = SessionIDs
    /\ fileSessions = SessionIDs
    /\ \E store \in Stores, place \in [SessionIDs -> ProjectIDs] :
          \E proj \in Settled(ProjectFamily(store)) :
          /\ store = "files" => \A k \in SessionIDs : proj[place[k]].isDir
          /\ dbStatus = IF store = "files" THEN "absent" ELSE "ok"
          /\ projects = [st \in {"sqlite", "files"} |->
                            IF st = store THEN proj ELSE WellKeptProjects[st]]
          /\ sessionMeta = [st \in Stores |-> [k \in SessionIDs |->
                               IF st = store THEN [WellKept(k) EXCEPT !.project = place[k]]
                               ELSE WellKept(k)]]
    /\ dbMessages = [s \in SessionIDs |-> MkRows(DualMsgs, 0)]
    /\ fileMessages = [s \in SessionIDs |-> MkRows(DualMsgs, 0)]
    /\ flatMessages = [a \in FlatAdapters |-> [s \in SessionIDs |-> MkRows(DualMsgs, 0)]]
    /\ rowOrder = GlobOrder
    /\ index = [s \in SessionIDs |-> NoEntry]
    /\ fingerprint = [f \in Files |-> 1]
    /\ cacheFaults = NoFaults
    /\ resp = Idle
    /\ lastOrigin = "none"
    /\ partStore = NoParts
    /\ built = NoMessage

NextProjects ==
    \/ CallListSessions
    \/ CallSearchSessions
    \/ CallFlatListSessions
    \/ CallFlatSearchSessions
    \/ Deliver

SpecProjects == InitProjects /\ [][NextProjects]_vars

\* One opencode session whose messages were stored in any order: the identifiers do
\* not follow the creation times, creation times are equal, and a SQLite row's JSON
\* may lack time.created.
Injective(f) == \A i \in DOMAIN f, j \in DOMAIN f : i # j => f[i] # f[j]

OrderRowFamily(store) ==
    { [n \in 1..OrderMsgs |->
         [Row(ids[n], TRUE) EXCEPT !.time = t[n],
                                   !.created = IF store = "sqlite" /\ n \in noJSONTime
                                               THEN 0 ELSE t[n]]] :
      ids \in { f \in [1..OrderMsgs -> 1..OrderMsgs] : Injective(f) },
      t \in [1..OrderMsgs -> 1..2],
      noJSONTime \in IF store = "sqlite" THEN SUBSET (1..OrderMsgs) ELSE {{}} }

InitOrder ==
    /\ storageStatus = "ok"
    /\ dbSessions = {"ses_one"}
    /\ fileSessions = {"ses_one"}
    /\ \E store \in {"sqlite", "files"},
          rows \in OrderRowFamily("sqlite") \cup OrderRowFamily("files") :
          /\ rows \in OrderRowFamily(store)
          /\ dbStatus = IF store = "sqlite" THEN "ok" ELSE "absent"
          /\ dbMessages = Only("ses_one",
                               IF store = "sqlite" THEN rows ELSE MkRows(DualMsgs, 0), <<>>)
          /\ fileMessages = Only("ses_one",
                               IF store = "files" THEN rows ELSE MkRows(DualMsgs, 0), NoDir)
    /\ flatMessages = [a \in FlatAdapters |-> [s \in SessionIDs |-> NoDir]]
    /\ sessionMeta = [st \in Stores |-> [k \in SessionIDs |-> WellKept(k)]]
    /\ index = [s \in SessionIDs |-> NoEntry]
    /\ fingerprint = [f \in Files |-> 1]
    /\ cacheFaults = NoFaults
    /\ resp = Idle
    /\ lastOrigin = "none"
    /\ rowOrder = GlobOrder
    /\ projects = WellKeptProjects
    /\ partStore = NoParts
    /\ built = NoMessage

NextOrder ==
    \/ CallGetSessionPage
    \/ CallGetSession
    \/ Deliver

SpecOrder == InitOrder /\ [][NextOrder]_vars

\* ================================================================ claims
\* The ordered message sequence of a session in the store that holds it.
AllOk(rows) == \A i \in 1..Len(rows) : rows[i].ok

StoreMessages(store, sid) ==
    CASE store = "sqlite" -> LET rows == OrderByTimeAndID(Range(dbMessages[sid]))
                             IN  [i \in 1..Len(rows) |-> ToMessage("sqlite", sid, rows[i])]
      [] store = "files" -> LET rows == SelectOk(OrderByName(Range(fileMessages[sid])))
                            IN  [i \in 1..Len(rows) |-> ToMessage("files", sid, rows[i])]
      [] OTHER -> LET rows == SelectOk(flatMessages[store][sid])
                  IN  [i \in 1..Len(rows) |-> ToMessage(store, sid, rows[i])]

\* The store whose messages a successful page response shows.
ServedBy(r) == IF r.source = "opencode" THEN Origin(r) ELSE r.source

\* Positions P*S .. min(P*S+S, T)-1 (counted from 0) of a sequence of length T.
Window(all, P, S) ==
    IF P * S >= Len(all) THEN <<>>
    ELSE [i \in 1..(Min(P * S + S, Len(all)) - P * S) |-> all[P * S + i]]

\* The resolved page as the pagination resolver is specified.
RefResolvedPage(P, S, T, reverse) ==
    IF ~reverse THEN P
    ELSE IF T = 0 THEN 0
    ELSE LET lastPage == CHOOSE k \in 0..T : k * S <= T - 1 /\ T - 1 < (k + 1) * S
         IN  IF lastPage - P >= 0 THEN lastPage - P ELSE -1

PageOk(r, op) == r.op = op /\ r.err = <<>>

\* C1: get_session with from_end=false returns, for every adapter, page P >= 0 and
\* page size S >= 1, exactly the messages at positions P*S .. min(P*S+S, T)-1 of the
\* session's ordered message sequence.
C1_ForwardPageIsWindow ==
    (PageOk(resp, "get_session") /\ ~resp.fromEnd)
        => resp.messages = Window(StoreMessages(ServedBy(resp), resp.sid),
                                  resp.page, resp.pageSize)

\* C2: the page resolved for a request (P, S, reverse) on T messages is P when
\* reverse is false, 0 when reverse and T = 0, and otherwise floor((T-1)/S) - P, or
\* -1 when that is negative.
C2_ResolvePageMatchesReference ==
    PageOk(resp, "GetSessionPage")
        => resp.resolved = RefResolvedPage(resp.page, resp.pageSize, resp.total, resp.fromEnd)

C2_Witness ==
    /\ PageOk(resp, "GetSessionPage") /\ resp.fromEnd
    /\ resp.total = 0 /\ resp.page = 2 /\ resp.resolved = 0

\* C3: GetSessionPage on an existing session succeeds and returns, from the backend
\* that serves it, totalCount = T, the resolved page r, the messages at positions
\* r*S .. min(r*S+S, T)-1 (none when r = -1 or r*S >= T) and
\* hasMore = (r*S + returnedCount < T); with T = 5, S = 2 and fromEnd the pages
\* 0, 1, 2, 3 resolve to 2, 1, 0, -1 with 1, 2, 2, 0 messages and hasMore
\* false, true, true, false.
C3_PageOfExistingSession ==
    resp.op = "GetSessionPage" =>
        LET sid == resp.sid
            all == StoreMessages(Origin(resp), sid)
            T == Len(all)
            r == RefResolvedPage(resp.page, resp.pageSize, T, resp.fromEnd)
            expected == IF r >= 0 THEN Window(all, r, resp.pageSize) ELSE <<>>
        IN  /\ (dbStatus = "ok" /\ sid \in dbSessions /\ AllOk(dbMessages[sid]))
                => (resp.err = <<>> /\ Origin(resp) = "sqlite")
            /\ messageDirExists(sid) => resp.err = <<>>
            /\ resp.err = <<>> =>
                /\ resp.total = T
                /\ resp.resolved = r
                /\ resp.messages = expected
                /\ resp.hasMore = (r >= 0 /\ r * resp.pageSize + Len(resp.messages) < T)
                /\ (T = 5 /\ resp.pageSize = 2 /\ resp.fromEnd) =>
                    /\ resp.page = 0 => (r = 2 /\ resp.messages = <<all[5]>> /\ ~resp.hasMore)
                    /\ resp.page = 1 => (r = 1 /\ resp.messages = <<all[3], all[4]>>
                                         /\ resp.hasMore)
                    /\ resp.page = 2 => (r = 0 /\ resp.messages = <<all[1], all[2]>>
                                         /\ resp.hasMore)
                    /\ resp.page = 3 => (r = -1 /\ resp.messages = <<>> /\ ~resp.hasMore)

C3_Witness ==
    /\ PageOk(resp, "GetSessionPage") /\ resp.fromEnd
    /\ Origin(resp) = "sqlite"
    /\ resp.total = 5 /\ resp.pageSize = 2 /\ resp.page = 1
    /\ resp.resolved = 1 /\ Len(resp.messages) = 2 /\ resp.hasMore

\* C4: walking backward over P = 0, 1, 2, ... with fromEnd on an unchanged session
\* of T > 0 messages: the pages P = 0..floor((T-1)/S) are non-empty and pairwise
\* disjoint, joined in decreasing P order they are the whole message sequence,
\* reverse page P is forward page floor((T-1)/S) - P, and every P past the range
\* resolves to -1.
RECURSIVE BackwardConcat(_, _, _)
BackwardConcat(sid, S, P) ==
    IF P < 0 THEN <<>>
    ELSE GetSessionPage(sid, P, S, TRUE).messages \o BackwardConcat(sid, S, P - 1)

Disjoint(a, b) == \A i \in 1..Len(a), j \in 1..Len(b) : a[i] # b[j]

C4_BackwardWalkCoversSession ==
    (PageOk(resp, "GetSessionPage") /\ resp.fromEnd /\ resp.total > 0)
    => LET sid == resp.sid
           S == resp.pageSize
           all == StoreMessages(Origin(resp), sid)
           last == CHOOSE k \in 0..Len(all) : k * S <= Len(all) - 1 /\ Len(all) - 1 < (k + 1) * S
           back(P) == GetSessionPage(sid, P, S, TRUE)
           fwd(P) == GetSessionPage(sid, P, S, FALSE)
       IN  /\ \A P \in 0..last :
                /\ back(P).err = <<>> /\ back(P).messages # <<>>
                /\ back(P).messages = fwd(last - P).messages
                /\ back(P).resolved = last - P
                /\ \A Q \in 0..last : P # Q => Disjoint(back(P).messages, back(Q).messages)
           /\ BackwardConcat(sid, S, last) = all
           /\ \A P \in (last + 1)..(last + 3) :
                back(P).resolved = -1 /\ back(P).messages = <<>>
           /\ resp.page <= last => resp.messages = fwd(last - resp.page).messages
           /\ resp.page > last => resp.resolved = -1

\* C5: no page holds more messages than the requested page size S >= 1, whichever
\* adapter, page and direction, for get_session, GetSessionPage and GetSession.
C5_PageWithinSize ==
    (resp.op \in {"get_session", "GetSessionPage", "GetSession"} /\ resp.pageSize >= 1)
        => Len(resp.messages) <= resp.pageSize

C5_Witness ==
    /\ PageOk(resp, "get_session") /\ resp.source = "mistral"
    /\ Len(StoreMessages("mistral", resp.sid)) > resp.pageSize
    /\ Len(resp.messages) = resp.pageSize /\ resp.hasMore

\* ------------------------------------------------- the two backends
OpencodeOps == {"ListSessions", "SearchSessions", "GetSessionPage", "GetSession"}
ListOps == {"ListSessions", "SearchSessions"}

OpencodeCall(r) == r.source = "opencode" /\ r.op \in OpencodeOps

\* What the SQLite store and the legacy store each answer to the request of a response.
CanonicalAttempt(r) ==
    CASE r.op = "ListSessions" -> listSessionsFromSQLite(r.path, r.limit)
      [] r.op = "SearchSessions" -> searchSessionsFromSQLite(r.path, r.query, r.limit)
      [] OTHER -> getSessionPageFromSQLite(r.sid, r.page, r.pageSize, r.fromEnd)

LegacyAttempt(r) ==
    CASE r.op = "ListSessions" -> listSessionsFromFiles(r.path, r.limit)
      [] r.op = "SearchSessions" -> searchSessionsFromFiles(r.path, r.query, r.limit)
      [] OTHER -> getSessionPageFromFiles(r.sid, r.page, r.pageSize, r.fromEnd)

SamePayload(r, a) ==
    IF r.op \in ListOps THEN r.sessions = a.sessions
    ELSE IF r.op = "GetSession" THEN r.messages = a.messages
    ELSE /\ r.messages = a.messages /\ r.total = a.total
         /\ r.resolved = a.resolved /\ r.hasMore = a.hasMore

Causes(err) == { err[i] : i \in 1..Len(err) }

LegacyPaths == { LegacyPath(p, s) : p \in ProjectIDs, s \in SessionIDs }

\* C6: every opencode operation attempts the SQLite store first, and when that
\* attempt returns without error, an empty result included, the legacy store is not
\* consulted and the result is the SQLite result.
C6_CanonicalFirstAndAlone ==
    OpencodeCall(resp) =>
        /\ resp.tried # <<>> /\ resp.tried[1] = "sqlite"
        /\ CanonicalAttempt(resp).err = <<>> =>
            /\ resp.tried = <<"sqlite">>
            /\ resp.err = <<>>
            /\ SamePayload(resp, CanonicalAttempt(resp))

C6_Witness ==
    /\ resp.op = "ListSessions" /\ resp.err = <<>>
    /\ resp.tried = <<"sqlite">> /\ resp.sessions = <<>>
    /\ listSessionsFromFiles(resp.path, resp.limit).sessions # <<>>

\* C7: when the SQLite attempt fails (file absent, open failure, query error, session
\* not found) the call returns what the legacy attempt returns if that succeeds; the
\* call fails exactly when both attempts fail, with one error holding both causes.
C7_FallbackOrCombinedError ==
    OpencodeCall(resp) =>
        LET canonical == CanonicalAttempt(resp)
            legacy == LegacyAttempt(resp)
        IN  /\ (resp.err # <<>>) <=> (canonical.err # <<>> /\ legacy.err # <<>>)
            /\ canonical.err # <<>> =>
                /\ resp.tried = <<"sqlite", "files">>
                /\ legacy.err = <<>> => (resp.err = <<>> /\ SamePayload(resp, legacy))
                /\ legacy.err # <<>> =>
                    (Causes(canonical.err) \cup Causes(legacy.err)) \subseteq Causes(resp.err)

C7_Witness ==
    /\ resp.op = "SearchSessions"
    /\ resp.err = <<"failed to set sqlite busy_timeout", "failed to read session directory">>

\* C8: with opencode.db and the storage directory both absent, ListSessions and
\* SearchSessions fail with one error naming both causes.
C8_BothAbsentIsCombinedError ==
    (resp.op \in ListOps /\ dbStatus = "absent" /\ storageStatus = "absent")
        => Len(resp.err) = 2

\* C9: a non-empty result of ListSessions or SearchSessions has one origin: every
\* FilePath is the database path, or every FilePath is a legacy session file.
C9_OneOrigin ==
    (resp.op \in ListOps /\ resp.sessions # <<>>) =>
        \/ \A i \in 1..Len(resp.sessions) : resp.sessions[i].filePath = DbPath
        \/ \A i \in 1..Len(resp.sessions) : resp.sessions[i].filePath \in LegacyPaths

C9_Witness ==
    /\ resp.op = "ListSessions" /\ Len(resp.sessions) = 2
    /\ \A i \in 1..2 : resp.sessions[i].filePath \in LegacyPaths
    /\ dbSessions # {}

\* C10: the fallback decision keeps no state: a call made after a call that fell back
\* to the legacy store, or that failed on both, attempts the SQLite store first and is
\* served from it as soon as it is available.
C10_NoStickyFallback ==
    (OpencodeCall(resp) /\ resp.prev \in {"files", "failed"}) =>
        /\ resp.tried # <<>> /\ resp.tried[1] = "sqlite"
        /\ CanonicalAttempt(resp).err = <<>> => Origin(resp) = "sqlite"

C10_Witness ==
    /\ resp.op = "ListSessions" /\ resp.prev = "files"
    /\ Origin(resp) = "sqlite" /\ resp.sessions # <<>>
    /\ listSessionsFromFiles(resp.path, resp.limit).err = <<>>

\* ------------------------------------------------- malformed records
\* The backend that holds the session of a request: SQLite when the database is
\* usable and has the session row, the legacy store when it has the message directory.
HoldingStore(sid) ==
    IF dbStatus = "ok" /\ sid \in dbSessions THEN "sqlite"
    ELSE IF messageDirExists(sid) THEN "files"
    ELSE "none"

StoreRows(store, sid) == IF store = "sqlite" THEN dbMessages[sid] ELSE fileMessages[sid]

WellFormedMessages(store, sid) == ToMessages(store, sid, SelectOk(StoreRows(store, sid)))

\* C11: a malformed message record of a session is left out of the result and never
\* makes GetSessionPage or GetSession fail, nor changes the backend that serves the
\* call: the call succeeds, is served by the backend that holds the session, and
\* returns well-formed messages of that backend only, so that the forward pages of
\* size 1 together return every well-formed message.
C11_MalformedRecordSwallowed ==
    (/\ resp.op \in {"GetSessionPage", "GetSession"}
     /\ HoldingStore(resp.sid) # "none")
    => LET store == HoldingStore(resp.sid)
           good == WellFormedMessages(store, resp.sid)
           n == Len(StoreRows(store, resp.sid))
       IN  /\ resp.err = <<>>
           /\ Origin(resp) = store
           /\ \A i \in 1..Len(resp.messages) :
                \E j \in 1..Len(good) : resp.messages[i] = good[j]
           /\ \A j \in 1..Len(good) : \E P \in 0..n :
                LET r == GetSessionPage(resp.sid, P, 1, FALSE)
                IN  r.err = <<>> /\ r.messages = <<good[j]>>

\* ------------------------------------------------- listings
\* The store a successful listing was read from, the session records of a store and
\* those that parse and belong to the project of a filter.
ListedFrom(r) == IF r.source = "opencode" THEN Origin(r) ELSE r.source

PresentKeys(store) ==
    CASE store = "sqlite" -> dbSessions
      [] store = "files" -> fileSessions
      [] OTHER -> { k \in SessionIDs : flatMessages[store][k] # NoDir }

\* The project a stored session belongs to, as its store records it, and the path
\* of that project.
Recorded(store, k) ==
    store \in FlatAdapters \/ projects[store][sessionMeta[store][k].project].ok

StoredProjectPath(store, k) ==
    IF store \in FlatAdapters THEN Worktree(sessionMeta[store][k].project)
    ELSE projects[store][sessionMeta[store][k].project].worktree

Eligible(store, filter) ==
    { k \in PresentKeys(store) :
        /\ sessionMeta[store][k].ok
        /\ Recorded(store, k)
        /\ filter = "" \/ StoredProjectPath(store, k) = (IF filter = "one" THEN "/w/one"
                                                          ELSE filter) }

PathOf(store, k) ==
    CASE store = "sqlite" -> DbPath
      [] store = "files" -> LegacyPath(sessionMeta["files"][k].project, k)
      [] OTHER -> FlatPath(store, k)

ListingOf(r, limit) ==
    CASE r.source = "opencode" -> ListSessions(r.path, limit)
      [] r.source = "mistral" -> MistralListSessions(r.path, limit)
      [] OTHER -> CopilotListSessions(r.path, limit)

ListOk(r) == r.op = "ListSessions" /\ r.err = <<>> /\ ListedFrom(r) \in Stores

\* C12: ListSessions(projectFilter, limit) of every adapter returns the sessions
\* newest first (non-increasing Timestamp); of the N sessions that parse it returns
\* all N when limit = 0 and min(limit, N) when limit > 0, and these are the newest:
\* their Timestamps are the first ones of the full listing; a session file that does
\* not parse is left out and does not fail the listing.
C12_ListingNewestFirstWithLimit ==
    resp.op = "ListSessions" =>
        LET store == ListedFrom(resp)
            N == Cardinality(Eligible(store, resp.path))
            full == ListingOf(resp, 0).sessions
            n == Len(resp.sessions)
        IN  /\ resp.err = <<>>
            /\ \A i \in 1..n, j \in 1..n : i < j =>
                  resp.sessions[i].timestamp >= resp.sessions[j].timestamp
            /\ Len(full) = N
            /\ n = (IF resp.limit > 0 THEN Min(resp.limit, N) ELSE N)
            /\ \A i \in 1..n :
                  /\ resp.sessions[i].timestamp = full[i].timestamp
                  /\ \E j \in 1..N : resp.sessions[i] = full[j]
                  /\ \E k \in Eligible(store, resp.path) :
                        resp.sessions[i].filePath = PathOf(store, k)

C12_Witness ==
    /\ ListOk(resp) /\ resp.source = "mistral" /\ resp.limit = 1
    /\ Cardinality(Eligible("mistral", resp.path)) = 2
    /\ Len(resp.sessions) = 1
    /\ resp.sessions[1].timestamp = 3000
    /\ \E s \in Range(ListingOf(resp, 0).sessions) : s.timestamp = 2000

\* The absolute form of a project filter: a relative path is taken from the working
\* directory Cwd.
AbsForm(filter) == IF filter = "one" THEN "/w/one" ELSE filter

Returned(r, store, k) ==
    \E i \in 1..Len(r.sessions) :
        /\ r.sessions[i].filePath = PathOf(store, k)
        /\ r.sessions[i].id = sessionMeta[store][k].id

\* A stored session the search has to find: its title holds the query, or, for
\* the adapters that keep no title, one of its messages does.
SearchHit(store, k, query) ==
    IF store \in FlatAdapters THEN flatContentHit(store, k, ToLower(query))
    ELSE Contains(ToLower(TitleOf(k)), ToLower(query))

\* C13: with a project filter every session that ListSessions and SearchSessions
\* return has ProjectPath equal to the absolute form of the filter, and every stored
\* session of that project is eligible: without limit the listing returns each of
\* them and the search each of them that holds the query; with an empty filter
\* this covers the sessions of all projects.
C13_ProjectFilter ==
    (resp.op \in ListOps /\ resp.err = <<>>) =>
        LET store == ListedFrom(resp)
        IN  /\ resp.path # "" =>
                \A i \in 1..Len(resp.sessions) : resp.sessions[i].project = AbsForm(resp.path)
            /\ resp.limit = 0 =>
                \A k \in Eligible(store, resp.path) :
                    (resp.op = "ListSessions" \/ SearchHit(store, k, resp.query))
                    => Returned(resp, store, k)

Epoch == 0      \* time.UnixMilli(0), the Unix epoch

\* The session record a listed session was read from.
RecordOf(store, session) ==
    { k \in PresentKeys(store) :
        /\ session.filePath = PathOf(store, k)
        /\ store = "sqlite" => session.id = k }

\* C14: every Session that ListSessions returns has a resolvable Timestamp: never the
\* zero time nor the Unix epoch, and the modification time of its file when the
\* record has no native creation time.
C14_TimestampResolvable ==
    ListOk(resp) =>
        \A i \in 1..Len(resp.sessions) :
            /\ resp.sessions[i].timestamp \notin {ZeroTime, Epoch}
            /\ \A k \in RecordOf(ListedFrom(resp), resp.sessions[i]) :
                  sessionMeta[ListedFrom(resp)][k].created = 0
                  => resp.sessions[i].timestamp = sessionMeta[ListedFrom(resp)][k].mtime

\* The messages of the session a record names, as the store holds them.
MessageRows(store, k) ==
    CASE store = "sqlite" -> dbMessages[k]
      [] store = "files" ->
            IF fileMessages[sessionMeta[store][k].id] = NoDir THEN <<>>
            ELSE fileMessages[sessionMeta[store][k].id]
      [] OTHER -> flatMessages[store][k]

NonBlankUserMessages(store, k) ==
    { i \in 1..Len(MessageRows(store, k)) :
        /\ MessageRows(store, k)[i].ok
        /\ MessageRows(store, k)[i].role = "user"
        /\ ~MessageRows(store, k)[i].blank }

\* C15: for every adapter, UserMessageCount of a listed session is the number of its
\* user messages whose content is not empty after trimming; user messages with empty
\* or blank content are not counted.
C15_UserMessageCount ==
    ListOk(resp) =>
        \A i \in 1..Len(resp.sessions) :
            \A k \in RecordOf(ListedFrom(resp), resp.sessions[i]) :
                resp.sessions[i].userCount =
                    Cardinality(NonBlankUserMessages(ListedFrom(resp), k))

\* ------------------------------------------------- message order
\* By creation time, equal times by message identifier.
InTimeOrder(a, b) ==
    a.timestamp < b.timestamp \/ (a.timestamp = b.timestamp /\ a.id < b.id)

\* C16: the messages returned for a session are ordered by creation time on both
\* backends: within a page, and from the last message of a forward page to the first
\* of the next one, each Timestamp is <= the next, equal times in identifier order.
C16_MessagesInTimeOrder ==
    (resp.op \in {"GetSessionPage", "GetSession"} /\ resp.err = <<>>) =>
        LET n == Len(resp.messages)
            next == GetSessionPage(resp.sid, resp.page + 1, resp.pageSize, FALSE)
        IN  /\ \A i \in 1..n, j \in 1..n :
                  i < j => InTimeOrder(resp.messages[i], resp.messages[j])
            /\ (~resp.fromEnd /\ n > 0 /\ next.err = <<>> /\ next.messages # <<>>)
                  => InTimeOrder(resp.messages[n], next.messages[1])

\* C17: in the result of one ListSessions call of one adapter no two sessions have
\* the same ID, whatever the store holds.
C17_SessionIDsUnique ==
    ListOk(resp) =>
        \A i \in 1..Len(resp.sessions), j \in 1..Len(resp.sessions) :
            i # j => resp.sessions[i].id # resp.sessions[j].id

\* ------------------------------------------------- the tools
\* The adapters that have a GetSessionPage method.
WithGetSessionPage == {"opencode"}

\* C18: get_session finds out per adapter whether it has GetSessionPage: for an
\* adapter that has it the call fails when GetSessionPage fails and otherwise returns
\* its messages, total, resolved page and has_more; for an adapter that has not, a
\* request with from_end fails and returns no messages.
C18_CapabilityDetected ==
    resp.op = "get_session" =>
        LET paged == GetSessionPage(resp.sid, resp.page, resp.pageSize, resp.fromEnd)
        IN  /\ resp.source \in WithGetSessionPage =>
                /\ (resp.err = <<>>) <=> (paged.err = <<>>)
                /\ paged.err = <<>> =>
                    /\ resp.messages = paged.messages /\ resp.total = paged.total
                    /\ resp.resolved = paged.resolved /\ resp.hasMore = paged.hasMore
            /\ (resp.source \in Sources \ WithGetSessionPage /\ resp.fromEnd) =>
                resp.err = <<"from_end is not supported">> /\ resp.messages = <<>>

C18_Witness ==
    /\ resp.op = "get_session" /\ resp.source = "mistral" /\ resp.fromEnd
    /\ flatMessages["mistral"][resp.sid] # NoDir
    /\ Len(flatMessages["mistral"][resp.sid]) >= 2
    /\ resp.err = <<"from_end is not supported">> /\ resp.messages = <<>>

\* C19: a request that names an unknown source is answered with the unknown-source
\* error by list_sessions, get_session and search_sessions, and yields nothing.
ToolOps == {"list_sessions", "get_session", "search_sessions"}

UnknownSource(r) == r.source # "" /\ r.source \notin Sources

C19_UnknownSourceRejected ==
    (/\ resp.op \in ToolOps
     /\ UnknownSource(resp)
     /\ resp.op = "search_sessions" => resp.query # "") =>
        /\ resp.err = <<"unknown source">>
        /\ resp.sessions = <<>> /\ resp.matches = <<>> /\ resp.messages = <<>>

\* The sessions a sweep for the source and the project path lists and fetches.
RECURSIVE sweptBy(_, _)
sweptBy(adapterSeq, projectPath) ==
    IF adapterSeq = <<>> THEN {}
    ELSE LET source == Head(adapterSeq)
             listed == adapterListSessions(source, projectPath, 0)
         IN  (IF listed.err # <<>> THEN {}
              ELSE { session \in Range(listed.sessions) :
                       adapterGetSession(source, session.id, 0, IndexPageSize).err = <<>> })
             \cup sweptBy(Tail(adapterSeq), projectPath)

\* The adapters a call for the source queries, in one of the orders.
Queried(source) == CHOOSE order \in RangeOrders(source) : TRUE

Swept(source, projectPath) == sweptBy(Queried(source), projectPath)

Indexed(s) == index[s] # NoEntry

\* The session ids some adapter lists now, for any project.
ListedNow ==
    { session.id : session \in Swept("", "") }

\* C22: index entries are never evicted: a session id that has a document keeps
\* one through every later sweep, search, change and loss of its file, and its
\* document changes only when a sweep calls IndexSession for that session id.
C22_NeverEvicted ==
    [][ \A s \in SessionIDs :
            Indexed(s) =>
                /\ Indexed(s)'
                /\ index'[s] # index[s] =>
                      /\ resp'.op = "search_sessions"
                      /\ \E i \in 1..Len(resp'.indexed) : resp'.indexed[i] = s ]_vars

\* A search has run after the file of an indexed session went: the session is
\* listed and fetched by no adapter, the sweep did not touch it, the document stays.
C22_Witness ==
    /\ resp.op = "search_sessions" /\ resp.err = <<>> /\ resp.source = ""
    /\ "ses_two" \in resp.before
    /\ "ses_two" \notin ListedNow
    /\ resp.indexed = <<>>
    /\ Indexed("ses_two")

\* The sessions in scope of a sweep that are stale and that the sweep can index:
\* their adapter lists them, the checks of the cache work and the fetch succeeds.
Indexable(source, projectPath) ==
    { session \in Swept(source, projectPath) :
        /\ ~NeedsReindexFails(session.id) /\ ~IndexSessionFails(session.id)
        /\ NeedsReindex(index, session.id, session.filePath) }

\* The sessions in scope that the sweep has to skip, and the adapters whose
\* listing fails.
RECURSIVE skippedBy(_, _)
skippedBy(adapterSeq, projectPath) ==
    IF adapterSeq = <<>> THEN {}
    ELSE LET source == Head(adapterSeq)
             listed == adapterListSessions(source, projectPath, 0)
         IN  (IF listed.err # <<>> THEN {}
              ELSE { session \in Range(listed.sessions) :
                       \/ NeedsReindexFails(session.id) \/ IndexSessionFails(session.id)
                       \/ adapterGetSession(source, session.id, 0, IndexPageSize).err # <<>> })
             \cup skippedBy(Tail(adapterSeq), projectPath)

FailingAdapters(source, projectPath) ==
    { a \in adaptersToQuery(source) : adapterListSessions(a, projectPath, 0).err # <<>> }

\* C23: in the sweep of a search a failure for one session or for the listing of
\* one adapter skips that session or adapter only: IndexSession is called for
\* every other stale session in scope, which has a document afterwards, the
\* search reports no error of the sweep (its only error is that of a failing
\* Search) and its matches are those of the index the sweep left.
C23_SweepFailureIsolated ==
    [][ (resp = Idle /\ resp'.op = "search_sessions" /\ resp'.query # "") =>
            /\ resp'.err = IF SearchFails THEN <<"search failed">> ELSE <<>>
            /\ \A session \in Indexable(resp'.source, resp'.path) :
                  /\ \E i \in 1..Len(resp'.indexed) : resp'.indexed[i] = session.id
                  /\ Indexed(session.id)'
            /\ resp'.matches = IF SearchFails THEN <<>>
                               ELSE Search(index', resp'.query, resp'.source, resp'.path,
                                           DefaultListLimit, resp'.ties) ]_vars

\* The fetch of ses_one failed and ses_two was indexed in the same sweep.
C23_Witness ==
    /\ resp.op = "search_sessions" /\ resp.err = <<>>
    /\ \E session \in skippedBy(Queried(resp.source), resp.path) :
          /\ session.id = "ses_one"
          /\ adapterGetSession("opencode", "ses_one", 0, IndexPageSize).err # <<>>
    /\ resp.indexed = <<"ses_two">>
    /\ "ses_two" \notin resp.before
    /\ Indexed("ses_two") /\ ~Indexed("ses_one")

\* The listing of the opencode adapter failed and the sessions of mistral were
\* indexed in the same sweep.
C23_WitnessAdapter ==
    /\ resp.op = "search_sessions" /\ resp.err = <<>> /\ resp.source = ""
    /\ "opencode" \in FailingAdapters(resp.source, resp.path)
    /\ Len(resp.indexed) >= 1
    /\ \A i \in 1..Len(resp.indexed) : index[resp.indexed[i]].source = "mistral"

\* C24: a search runs the sweep over the sessions in scope before it ranks; after
\* the sweep every session in scope that was listed, fetched and indexed needs no
\* reindex, so that a second sweep right after it calls IndexSession for no
\* session but those whose IndexSession failed.
C24_SweepThenRankAndSettle ==
    (resp.op = "search_sessions" /\ resp.query # "") =>
        /\ ~SearchFails => resp.matches = Search(index, resp.query, resp.source, resp.path,
                                                 DefaultListLimit, resp.ties)
        /\ \A session \in Swept(resp.source, resp.path) :
              (~NeedsReindexFails(session.id) /\ ~IndexSessionFails(session.id)) =>
                  ~NeedsReindex(index, session.id, session.filePath)
        /\ \A order \in RangeOrders(resp.source) :
              \A i \in 1..Len(indexSessions(index, resp.source, resp.path, order).calls) :
                 IndexSessionFails(indexSessions(index, resp.source, resp.path, order).calls[i])

\* C25: for an adapter without GetSessionPage, has_more of get_session for page P
\* and size S of a session of T messages is (P*S + returned) < T: it is true
\* exactly when messages follow the returned window.
C25_HasMoreTellsWhatFollows ==
    (PageOk(resp, "get_session") /\ resp.source \in FlatAdapters) =>
        resp.hasMore = (resp.page * resp.pageSize + Len(resp.messages)
                            < Len(StoreMessages(resp.source, resp.sid)))

\* The ids of the sessions of a listing.
ListedIDs(r) == { r.sessions[i].id : i \in 1..Len(r.sessions) }

PageOf(sid) == GetSessionPage(sid, 0, DefaultPageSize, FALSE)

\* C26: in one store state ListSessions and GetSessionPage of the opencode adapter
\* resolve to the same backend: every session id GetSessionPage succeeds for is
\* returned by ListSessions("", 0), and GetSessionPage of every listed id does not
\* fail with "session not found".
C26_ListAndPageAgree ==
    (PageOk(resp, "ListSessions") /\ resp.source = "opencode"
        /\ resp.path = "" /\ resp.limit = 0) =>
        /\ \A s \in SessionIDs : PageOf(s).err = <<>> => s \in ListedIDs(resp)
        /\ \A s \in ListedIDs(resp) : "session not found" \notin Causes(PageOf(s).err)

\* The file of a flat adapter that a listed session was read from.
FileKeyOf(adapter, session) ==
    CHOOSE k \in SessionIDs : FlatPath(adapter, k) = session.filePath

\* C27: every session that ListSessions of the Mistral or Copilot adapter returns
\* can be fetched by GetSession of that adapter with its id: the fetch does not
\* fail and returns the messages of the file the session was listed from.
C27_ListedSessionIsFetched ==
    (PageOk(resp, "ListSessions") /\ resp.source \in FlatAdapters) =>
        \A i \in 1..Len(resp.sessions) :
            LET session == resp.sessions[i]
                fetched == adapterGetSession(resp.source, session.id, 0, IndexPageSize)
            IN  /\ fetched.err = <<>>
                /\ fetched.messages
                       = StoreMessages(resp.source, FileKeyOf(resp.source, session))

\* C28: SearchSessions of every adapter with a limit above zero returns at most
\* limit sessions, whichever field produced each match.
C28_SearchWithinLimit ==
    (PageOk(resp, "SearchSessions") /\ resp.limit > 0) =>
        Len(resp.sessions) <= resp.limit

\* ceil(total / size) for size >= 1.
CeilDiv(total, size) == (total + size - 1) \div size

\* C29: get_session never slices out of range and always uses a page size >= 1:
\* for every integer page and page_size and every adapter the call ends without a
\* runtime panic, a page size <= 0 is replaced by 20 and a negative page by 0, and
\* the reported total_pages is ceil(total_messages / effective page size).
C29_PageArgsNormalised ==
    (resp.op = "get_session" /\ resp.source \in Sources) =>
        /\ "panic: slice bounds out of range" \notin Causes(resp.err)
        /\ resp.usedSize = (IF resp.pageSize <= 0 THEN DefaultPageSize ELSE resp.pageSize)
        /\ resp.usedPage = (IF resp.page < 0 THEN 0 ELSE resp.page)
        /\ resp.err = <<>> => resp.totalPages = CeilDiv(resp.total, resp.usedSize)

\* The number of parts of a Message counted under kinds other than "text".
NonTextCount(m) ==
    LET others == Kinds \ {"text"}
        RECURSIVE total(_)
        total(S) == IF S = {} THEN 0
                    ELSE LET k == CHOOSE x \in S : TRUE
                         IN  m.partTypes.count[k] + total(S \ {k})
    IN  total(others)

\* C30: every Message of opencode GetSessionPage, from either backend, is
\* consistent: PartTypes is not nil, HasNonTextParts is true exactly when
\* NonTextParts is non-empty, the number of NonTextParts is the sum of the
\* PartTypes counts of the kinds other than "text", and a non-empty Content
\* implies PartTypes["text"] >= 1.
C30_MessageConsistent ==
    built.stage # "none" =>
        /\ ~built.partTypes.nil
        /\ built.hasNonTextParts <=> (built.nonTextParts # <<>>)
        /\ Len(built.nonTextParts) = NonTextCount(built)
        /\ built.content # "" => built.partTypes.count["text"] >= 1

====
